---------------------------- MODULE Spec2Model ----------------------------
(***************************************************************************)
(* Model of the white-owl-scenario-engine decision router:                 *)
(*   execution/decision_router_engine.py  (main, route, classifiers,       *)
(*                                         to_json, format_routing_output) *)
(*   execution/decision_engine.py         (decision_engine)                *)
(*   execution/directive_loader.py        (load_directive, ...)            *)
(*   pages/1_Agent_Assistant.py           (the intent form)                *)
(* and of its compute engine:                                              *)
(*   app.py                               (compute)                        *)
(*   execution/scenario_engine.py         (compute_unit_economics, ...)    *)
(*                                                                         *)
(* Spec is main() with route(), decision_engine() and the assistant page;  *)
(* ComputeSpec is one call of a function of the compute engine; RerunSpec  *)
(* is a session of several such calls; CallSpec is one call of an output   *)
(* function, a classifier or the directive loader.                         *)
(*                                                                         *)
(* A Python str is a sequence of one-character strings, so that `in`,      *)
(* lower(), strip(), join and re.sub are computed character by character.  *)
(* Non-ASCII punctuation of the source literals is written in ASCII        *)
(* (' for the curly apostrophe, -> for the arrow, - for the en dash,       *)
(* <= for the less-or-equal sign).                                         *)
(*                                                                         *)
(* A Python float is an exact fraction, or nan: the sums, products and     *)
(* quotients of the compute engine are computed without rounding.          *)
(***************************************************************************)
EXTENDS Integers, Sequences, FiniteSets, TLC

\* None as a label (Optional[str] holding a label) and as a text (Optional[str])
None == "None"

NoStr == <<"None">>

Range(s) == { s[i] : i \in 1..Len(s) }

\* Bounds of the model
MaxWords == 2

MaxDeviations == 4

\* -------------------------------------------------------------------------
\* Python str operations
\* -------------------------------------------------------------------------
WHITESPACE == { " ", "\t", "\n" }

UPPER_TO_LOWER ==
    "A" :> "a" @@ "B" :> "b" @@ "C" :> "c" @@ "D" :> "d" @@ "E" :> "e" @@ "F" :> "f" @@
    "G" :> "g" @@ "H" :> "h" @@ "I" :> "i" @@ "J" :> "j" @@ "K" :> "k" @@ "L" :> "l" @@
    "M" :> "m" @@ "N" :> "n" @@ "O" :> "o" @@ "P" :> "p" @@ "Q" :> "q" @@ "R" :> "r" @@
    "S" :> "s" @@ "T" :> "t" @@ "U" :> "u" @@ "V" :> "v" @@ "W" :> "w" @@ "X" :> "x" @@
    "Y" :> "y" @@ "Z" :> "z"

\* s.lower()
Lower(s) ==
    [ i \in 1..Len(s) |-> IF s[i] \in DOMAIN UPPER_TO_LOWER THEN UPPER_TO_LOWER[s[i]] ELSE s[i] ]

\* kw in q  (substring test; the empty string is in every string)
Contains(q, kw) ==
    \/ kw = << >>
    \/ \E i \in 1..(Len(q) - Len(kw) + 1) :
           q[i] = kw[1] /\ SubSeq(q, i, i + Len(kw) - 1) = kw

RECURSIVE LStrip(_)
LStrip(s) ==
    IF s # << >> /\ Head(s) \in WHITESPACE THEN LStrip(Tail(s)) ELSE s

RECURSIVE RStrip(_)
RStrip(s) ==
    IF s # << >> /\ s[Len(s)] \in WHITESPACE THEN RStrip(SubSeq(s, 1, Len(s) - 1)) ELSE s

\* s.strip()
Strip(s) == RStrip(LStrip(s))

\* re.sub(r"\s+", " ", s)
RECURSIVE CollapseWhitespace(_)
CollapseWhitespace(s) ==
    IF s = << >> THEN << >>
    ELSE IF Head(s) \in WHITESPACE THEN <<" ">> \o CollapseWhitespace(LStrip(s))
    ELSE <<Head(s)>> \o CollapseWhitespace(Tail(s))

\* sep.join(parts)
RECURSIVE Join(_, _)
Join(sep, parts) ==
    IF parts = << >> THEN << >>
    ELSE IF Len(parts) = 1 THEN parts[1]
    ELSE parts[1] \o sep \o Join(sep, Tail(parts))

\* not s  (truthiness of Optional[str])
Falsy(s) == s = NoStr \/ s = << >>

\* -------------------------------------------------------------------------
\* Tables of decision_router_engine.py and decision_engine.py
\* -------------------------------------------------------------------------
DECISION_ROUTER_MD ==
    <<"d","e","c","i","s","i","o","n","_","r","o","u","t","e","r",".","m","d">>

DEFINE_LTV_MODEL_MD ==
    <<"d","e","f","i","n","e","_","l","t","v","_","m","o","d","e","l",".","m","d">>

DEFINE_CAC_MODEL_MD ==
    <<"d","e","f","i","n","e","_","c","a","c","_","m","o","d","e","l",".","m","d">>

DIAGNOSE_UNIT_ECONOMICS_MD ==
    <<"d","i","a","g","n","o","s","e","_","u","n","i","t","_","e","c","o","n","o","m","i","c","s",
      ".","m","d">>

DIAGNOSE_CUSTOMER_QUALITY_MD ==
    <<"d","i","a","g","n","o","s","e","_","c","u","s","t","o","m","e","r","_","q","u","a","l","i",
      "t","y",".","m","d">>

DIAGNOSE_CAPACITY_AND_THROUGHPUT_MD ==
    <<"d","i","a","g","n","o","s","e","_","c","a","p","a","c","i","t","y","_","a","n","d","_","t",
      "h","r","o","u","g","h","p","u","t",".","m","d">>

DIAGNOSE_PRICING_MD ==
    <<"d","i","a","g","n","o","s","e","_","p","r","i","c","i","n","g",".","m","d">>

DIAGNOSE_ACQUISITION_QUALITY_MD ==
    <<"d","i","a","g","n","o","s","e","_","a","c","q","u","i","s","i","t","i","o","n","_","q","u",
      "a","l","i","t","y",".","m","d">>

OPTIMIZE_PRODUCT_MIX_MD ==
    <<"o","p","t","i","m","i","z","e","_","p","r","o","d","u","c","t","_","m","i","x",".","m","d">>

DIAGNOSE_SCALABILITY_MD ==
    <<"d","i","a","g","n","o","s","e","_","s","c","a","l","a","b","i","l","i","t","y",".","m","d">>

OPTIMIZE_SCALING_STRATEGY_MD ==
    <<"o","p","t","i","m","i","z","e","_","s","c","a","l","i","n","g","_","s","t","r","a","t","e",
      "g","y",".","m","d">>

DEFAULT_ROUTER_FILENAME ==
    DECISION_ROUTER_MD

REQUIRED_DEFINITION_FILES ==
    << DEFINE_LTV_MODEL_MD, DEFINE_CAC_MODEL_MD >>

EXPECTED_DIRECTIVES ==
    << DECISION_ROUTER_MD,
       DEFINE_LTV_MODEL_MD,
       DEFINE_CAC_MODEL_MD,
       DIAGNOSE_UNIT_ECONOMICS_MD,
       DIAGNOSE_CUSTOMER_QUALITY_MD,
       DIAGNOSE_CAPACITY_AND_THROUGHPUT_MD,
       DIAGNOSE_PRICING_MD,
       DIAGNOSE_ACQUISITION_QUALITY_MD,
       OPTIMIZE_PRODUCT_MIX_MD,
       DIAGNOSE_SCALABILITY_MD,
       OPTIMIZE_SCALING_STRATEGY_MD >>

DECISION_TYPES ==
    << "Pricing", "Acquisition", "Product / Offer", "Capacity / Operations", "Customer Quality", "Scaling / Growth", "Financial Viability", "Strategic Direction" >>

TIME_HORIZONS ==
    << "Immediate (days)", "Short (weeks)", "Medium (months)" >>

KEYWORDS_DECISION_TYPE_ORDER ==
    << "Pricing", "Acquisition", "Product / Offer", "Capacity / Operations", "Customer Quality", "Scaling / Growth", "Financial Viability", "Strategic Direction" >>

KEYWORDS_DECISION_TYPE ==
    "Pricing" :>
       << <<"p","r","i","c","e">>,
          <<"p","r","i","c","i","n","g">>,
          <<"r","a","i","s","e">>,
          <<"l","o","w","e","r">>,
          <<"d","i","s","c","o","u","n","t">>,
          <<"c","h","a","r","g","e">>,
          <<"r","a","t","e">>,
          <<"m","a","r","g","i","n">>,
          <<"u","n","d","e","r","p","r","i","c","e","d">>,
          <<"c","l","o","s","e"," ","r","a","t","e">>,
          <<"c","o","n","v","e","r","s","i","o","n"," ","r","a","t","e">>,
          <<"u","p","s","e","l","l">>,
          <<"o","f","f","e","r"," ","p","r","i","c","e">> >>
    @@ "Acquisition" :>
       << <<"a","d","s">>,
          <<"a","d","v","e","r","t","i","s","i","n","g">>,
          <<"f","a","c","e","b","o","o","k">>,
          <<"m","e","t","a">>,
          <<"i","n","s","t","a","g","r","a","m">>,
          <<"g","o","o","g","l","e">>,
          <<"s","e","o">>,
          <<"l","e","a","d">>,
          <<"l","e","a","d","s">>,
          <<"c","a","c">>,
          <<"t","r","a","f","f","i","c">>,
          <<"f","u","n","n","e","l">>,
          <<"e","m","a","i","l"," ","l","i","s","t">>,
          <<"o","u","t","r","e","a","c","h">>,
          <<"p","a","r","t","n","e","r","s","h","i","p">>,
          <<"r","e","f","e","r","r","a","l">>,
          <<"a","f","f","i","l","i","a","t","e">>,
          <<"c","o","l","d">>,
          <<"d","m">>,
          <<"i","n","b","o","u","n","d">>,
          <<"c","o","n","v","e","r","s","i","o","n">>,
          <<"b","o","o","k","i","n","g","s">> >>
    @@ "Product / Offer" :>
       << <<"p","r","o","d","u","c","t">>,
          <<"s","k","u">>,
          <<"o","f","f","e","r">>,
          <<"b","u","n","d","l","e">>,
          <<"p","a","c","k","a","g","e">>,
          <<"l","i","n","e">>,
          <<"v","a","r","i","a","n","t">>,
          <<"c","u","s","t","o","m">>,
          <<"p","e","r","s","o","n","a","l","i","z","e","d">>,
          <<"a","d","d">>,
          <<"r","e","m","o","v","e">>,
          <<"l","a","u","n","c","h">>,
          <<"n","e","w"," ","p","r","o","d","u","c","t">>,
          <<"c","a","t","a","l","o","g">>,
          <<"c","o","l","l","e","c","t","i","o","n">> >>
    @@ "Capacity / Operations" :>
       << <<"o","v","e","r","w","h","e","l","m","e","d">>,
          <<"o","v","e","r","l","o","a","d","e","d">>,
          <<"b","e","h","i","n","d">>,
          <<"l","a","t","e">>,
          <<"l","e","a","d"," ","t","i","m","e">>,
          <<"t","h","r","o","u","g","h","p","u","t">>,
          <<"c","a","p","a","c","i","t","y">>,
          <<"b","o","t","t","l","e","n","e","c","k">>,
          <<"s","c","h","e","d","u","l","e">>,
          <<"c","a","l","e","n","d","a","r">>,
          <<"p","r","o","d","u","c","t","i","o","n">>,
          <<"s","h","o","p">>,
          <<"m","a","c","h","i","n","i","n","g">>,
          <<"c","n","c">>,
          <<"l","a","s","e","r">>,
          <<"f","i","n","i","s","h","i","n","g">>,
          <<"a","s","s","e","m","b","l","y">>,
          <<"s","h","i","p","p","i","n","g">>,
          <<"f","u","l","f","i","l","l","m","e","n","t">> >>
    @@ "Customer Quality" :>
       << <<"b","a","d"," ","c","u","s","t","o","m","e","r","s">>,
          <<"d","i","f","f","i","c","u","l","t">>,
          <<"r","e","f","u","n","d">>,
          <<"c","h","a","r","g","e","b","a","c","k">>,
          <<"c","o","m","p","l","a","i","n","t">>,
          <<"r","e","v","i","s","i","o","n">>,
          <<"s","c","o","p","e"," ","c","r","e","e","p">>,
          <<"n","i","t","p","i","c","k","y">>,
          <<"c","u","s","t","o","m"," ","c","r","e","e","p">>,
          <<"p","i","c","k","y">>,
          <<"p","r","o","b","l","e","m"," ","c","u","s","t","o","m","e","r","s">>,
          <<"r","e","t","u","r","n","s">> >>
    @@ "Scaling / Growth" :>
       << <<"s","c","a","l","e">>,
          <<"s","c","a","l","i","n","g">>,
          <<"h","i","r","e">>,
          <<"h","i","r","i","n","g">>,
          <<"e","x","p","a","n","d">>,
          <<"g","r","o","w","t","h">>,
          <<"s","e","c","o","n","d"," ","l","o","c","a","t","i","o","n">>,
          <<"a","d","d"," ","c","a","p","a","c","i","t","y">>,
          <<"a","u","t","o","m","a","t","i","o","n">>,
          <<"s","y","s","t","e","m","i","z","e">>,
          <<"d","e","l","e","g","a","t">>,
          <<"r","e","p","l","i","c","a","t","e">>,
          <<"v","o","l","u","m","e">> >>
    @@ "Financial Viability" :>
       << <<"p","r","o","f","i","t">>,
          <<"l","o","s","s">>,
          <<"c","a","s","h">>,
          <<"c","a","s","h","f","l","o","w">>,
          <<"p","a","y","b","a","c","k">>,
          <<"l","t","v">>,
          <<"c","o","g","s">>,
          <<"g","r","o","s","s"," ","m","a","r","g","i","n">>,
          <<"n","e","t"," ","m","a","r","g","i","n">>,
          <<"b","r","e","a","k"," ","e","v","e","n">>,
          <<"u","n","i","t"," ","e","c","o","n","o","m","i","c","s">> >>
    @@ "Strategic Direction" :>
       << <<"s","t","r","a","t","e","g","y">>,
          <<"d","i","r","e","c","t","i","o","n">>,
          <<"f","o","c","u","s">>,
          <<"w","h","a","t"," ","s","h","o","u","l","d"," ","i"," ","d","o">>,
          <<"n","e","x","t"," ","s","t","e","p">>,
          <<"p","r","i","o","r","i","t","i","z","e">>,
          <<"r","o","a","d","m","a","p">>,
          <<"p","l","a","n">>,
          <<"p","o","s","i","t","i","o","n","i","n","g">>,
          <<"b","r","a","n","d">> >>

KEYWORDS_TIME_HORIZON_ORDER ==
    << "Immediate (days)", "Short (weeks)", "Medium (months)" >>

KEYWORDS_TIME_HORIZON ==
    "Immediate (days)" :>
       << <<"t","o","d","a","y">>,
          <<"t","o","m","o","r","r","o","w">>,
          <<"t","h","i","s"," ","w","e","e","k">>,
          <<"u","r","g","e","n","t">>,
          <<"a","s","a","p">>,
          <<"n","o","w">>,
          <<"r","i","g","h","t"," ","a","w","a","y">> >>
    @@ "Short (weeks)" :>
       << <<"n","e","x","t"," ","w","e","e","k">>,
          <<"t","h","i","s"," ","m","o","n","t","h">>,
          <<"f","e","w"," ","w","e","e","k","s">>,
          <<"2"," ","w","e","e","k","s">>,
          <<"3"," ","w","e","e","k","s">>,
          <<"4"," ","w","e","e","k","s">>,
          <<"i","n"," ","a"," ","m","o","n","t","h">> >>
    @@ "Medium (months)" :>
       << <<"q","u","a","r","t","e","r">>,
          <<"q","1">>,
          <<"q","2">>,
          <<"q","3">>,
          <<"q","4">>,
          <<"9","0"," ","d","a","y","s">>,
          <<"t","h","i","s"," ","y","e","a","r">>,
          <<"n","e","x","t"," ","q","u","a","r","t","e","r">>,
          <<"i","n"," ","6"," ","m","o","n","t","h","s">>,
          <<"i","n"," ","m","o","n","t","h","s">> >>

PAIN_SIGNALS_ORDER ==
    << "Sales are slow", "Margins feel thin", "I'm overloaded", "Customers are difficult", "Growth feels risky", "Not sure what to do next" >>

PAIN_SIGNALS ==
    "Sales are slow" :>
       << <<"s","a","l","e","s"," ","a","r","e"," ","s","l","o","w">>,
          <<"n","o","t"," ","s","e","l","l","i","n","g">>,
          <<"n","o"," ","s","a","l","e","s">>,
          <<"s","l","o","w"," ","s","a","l","e","s">>,
          <<"d","e","m","a","n","d"," ","i","s"," ","l","o","w">>,
          <<"n","o","t"," ","e","n","o","u","g","h"," ","o","r","d","e","r","s">> >>
    @@ "Margins feel thin" :>
       << <<"t","h","i","n"," ","m","a","r","g","i","n","s">>,
          <<"m","a","r","g","i","n","s"," ","a","r","e"," ","t","h","i","n">>,
          <<"n","o","t"," ","e","n","o","u","g","h"," ","p","r","o","f","i","t">>,
          <<"p","r","o","f","i","t"," ","i","s"," ","l","o","w">>,
          <<"g","r","o","s","s"," ","m","a","r","g","i","n">> >>
    @@ "I'm overloaded" :>
       << <<"o","v","e","r","w","h","e","l","m","e","d">>,
          <<"t","o","o"," ","b","u","s","y">>,
          <<"b","e","h","i","n","d">>,
          <<"l","a","t","e">>,
          <<"c","a","n","'","t"," ","k","e","e","p"," ","u","p">>,
          <<"o","v","e","r","l","o","a","d","e","d">>,
          <<"b","u","r","n","o","u","t">> >>
    @@ "Customers are difficult" :>
       << <<"d","i","f","f","i","c","u","l","t"," ","c","u","s","t","o","m","e","r","s">>,
          <<"r","e","f","u","n","d">>,
          <<"c","h","a","r","g","e","b","a","c","k">>,
          <<"c","o","m","p","l","a","i","n","t">>,
          <<"s","c","o","p","e"," ","c","r","e","e","p">>,
          <<"r","e","v","i","s","i","o","n","s">> >>
    @@ "Growth feels risky" :>
       << <<"r","i","s","k","y">>,
          <<"a","f","r","a","i","d"," ","t","o"," ","s","c","a","l","e">>,
          <<"s","c","a","l","i","n","g"," ","w","o","r","r","i","e","s">>,
          <<"c","a","n","'","t"," ","h","i","r","e">>,
          <<"c","a","s","h"," ","r","i","s","k">>,
          <<"t","o","o"," ","f","a","s","t">> >>
    @@ "Not sure what to do next" :>
       << <<"w","h","a","t"," ","s","h","o","u","l","d"," ","i"," ","d","o">>,
          <<"n","e","x","t"," ","s","t","e","p">>,
          <<"w","h","e","r","e"," ","d","o"," ","i"," ","s","t","a","r","t">>,
          <<"n","o","t"," ","s","u","r","e">>,
          <<"w","h","a","t"," ","n","o","w">>,
          <<"p","r","i","o","r","i","t","i","z","e">> >>

PLAYBOOK_SALES_ARE_SLOW ==
    [ directives |-> << DIAGNOSE_CUSTOMER_QUALITY_MD, DIAGNOSE_PRICING_MD, DIAGNOSE_ACQUISITION_QUALITY_MD >>,
      why |->
       <<"S","a","l","e","s"," ","s","l","o","w","n","e","s","s"," ","c","a","n"," ","b","e"," ","c",
         "a","u","s","e","d"," ","b","y"," ","w","r","o","n","g"," ","c","u","s","t","o","m",
         "e","r","s",","," ","w","r","o","n","g"," ","p","r","i","c","e","/","v","a","l","u",
         "e"," ","m","a","t","c","h",","," ","o","r"," ","w","e","a","k"," ","a","c","q","u",
         "i","s","i","t","i","o","n"," ","q","u","a","l","i","t","y","."," ","T","h","i","s",
         " ","s","e","q","u","e","n","c","e"," ","p","r","e","v","e","n","t","s"," ","d","i",
         "s","c","o","u","n","t","i","n","g"," ","o","r"," ","a","d","-","s","p","e","n","d",
         " ","m","i","s","t","a","k","e","s",".">>,
      required_inputs |->
       << <<"L","a","s","t"," ","1","0","-","3","0"," ","q","u","o","t","e","s","/","o","r","d","e","r",
            "s"," ","(","o","r"," ","b","e","s","t"," ","a","v","a","i","l","a","b","l","e",")">>,
          <<"Y","o","u","r"," ","c","u","r","r","e","n","t"," ","p","r","i","c","e","s"," ","+"," ","w",
            "h","a","t"," ","c","u","s","t","o","m","e","r","s"," ","a","c","t","u","a","l","l",
            "y"," ","a","s","k"," ","f","o","r">>,
          <<"W","h","e","r","e"," ","l","e","a","d","s"," ","a","r","e"," ","c","o","m","i","n","g"," ",
            "f","r","o","m"," ","(","e","v","e","n"," ","i","f"," ","s","m","a","l","l"," ","s",
            "a","m","p","l","e",")">>,
          <<"A","n","y"," ","c","l","o","s","e","-","r","a","t","e"," ","o","r"," ","i","n","q","u","i",
            "r","y","-","t","o","-","o","r","d","e","r"," ","n","o","t","e","s"," ","y","o","u",
            " ","h","a","v","e">> >>,
      stop_conditions |->
       << <<"D","o"," ","n","o","t"," ","d","i","s","c","o","u","n","t"," ","o","r"," ","i","n","c","r",
            "e","a","s","e"," ","a","d"," ","s","p","e","n","d"," ","u","n","t","i","l"," ","c",
            "u","s","t","o","m","e","r"," ","q","u","a","l","i","t","y"," ","+"," ","p","r","i",
            "c","i","n","g"," ","a","r","e"," ","d","i","a","g","n","o","s","e","d",".">>,
          <<"I","f"," ","a","c","q","u","i","s","i","t","i","o","n"," ","q","u","a","l","i","t","y"," ",
            "s","h","o","w","s"," ","p","o","o","r","-","f","i","t"," ","l","e","a","d","s",",",
            " ","f","i","x"," ","t","a","r","g","e","t","i","n","g"," ","b","e","f","o","r","e",
            " ","s","c","a","l","i","n","g",".">> >> ]

PLAYBOOK_MARGINS_FEEL_THIN ==
    [ directives |-> << DIAGNOSE_UNIT_ECONOMICS_MD, DIAGNOSE_CUSTOMER_QUALITY_MD, DIAGNOSE_PRICING_MD, OPTIMIZE_PRODUCT_MIX_MD >>,
      why |->
       <<"T","h","i","n"," ","m","a","r","g","i","n","s"," ","r","e","q","u","i","r","e"," ","v","e",
         "r","i","f","y","i","n","g"," ","u","n","i","t"," ","e","c","o","n","o","m","i","c",
         "s"," ","f","i","r","s","t",","," ","t","h","e","n"," ","c","h","e","c","k","i","n",
         "g"," ","i","f"," ","c","u","s","t","o","m","e","r"," ","b","e","h","a","v","i","o",
         "r"," ","a","n","d"," ","p","r","i","c","i","n","g"," ","a","r","e"," ","t","h","e",
         " ","d","r","i","v","e","r",","," ","t","h","e","n"," ","c","o","r","r","e","c","t",
         "i","n","g"," ","p","r","o","d","u","c","t"," ","m","i","x"," ","t","o"," ","p","r",
         "o","t","e","c","t"," ","t","h","r","o","u","g","h","p","u","t"," ","a","n","d"," ",
         "p","r","o","f","i","t",".">>,
      required_inputs |->
       << <<"A"," ","s","a","m","p","l","e"," ","o","r","d","e","r",":"," ","s","e","l","l","i","n","g",
            " ","p","r","i","c","e"," ","+"," ","m","a","t","e","r","i","a","l","s"," ","+"," ",
            "l","a","b","o","r"," ","t","i","m","e"," ","+"," ","p","a","c","k","a","g","i","n",
            "g"," ","+"," ","s","h","i","p","p","i","n","g">>,
          <<"A","n","y"," ","r","e","w","o","r","k","/","r","e","v","i","s","i","o","n"," ","r","a","t",
            "e","s">>,
          <<"C","u","s","t","o","m"," ","r","e","q","u","e","s","t","s"," ","f","r","e","q","u","e","n",
            "c","y">>,
          <<"W","h","i","c","h"," ","p","r","o","d","u","c","t","s"," ","f","e","e","l"," ","m","o","s",
            "t"," ","p","r","o","f","i","t","a","b","l","e"," ","v","s"," ","m","o","s","t"," ",
            "p","a","i","n","f","u","l">> >>,
      stop_conditions |->
       << <<"D","o"," ","n","o","t"," ","c","h","a","s","e"," ","v","o","l","u","m","e"," ","u","n","t",
            "i","l"," ","u","n","i","t"," ","e","c","o","n","o","m","i","c","s"," ","a","r","e",
            " ","u","n","d","e","r","s","t","o","o","d"," ","a","n","d"," ","c","o","r","r","e",
            "c","t","e","d",".">>,
          <<"I","f"," ","c","u","s","t","o","m","e","r"," ","q","u","a","l","i","t","y"," ","i","s"," ",
            "m","i","s","a","l","i","g","n","e","d",","," ","f","i","x"," ","o","f","f","e","r",
            " ","b","o","u","n","d","a","r","i","e","s"," ","b","e","f","o","r","e"," ","p","r",
            "i","c","i","n","g"," ","c","h","a","n","g","e","s",".">> >> ]

PLAYBOOK_IM_OVERLOADED ==
    [ directives |-> << DIAGNOSE_CAPACITY_AND_THROUGHPUT_MD, OPTIMIZE_PRODUCT_MIX_MD, DIAGNOSE_PRICING_MD >>,
      why |->
       <<"O","v","e","r","l","o","a","d"," ","i","s"," ","u","s","u","a","l","l","y"," ","a"," ","b",
         "o","t","t","l","e","n","e","c","k"," ","p","r","o","b","l","e","m"," ","(","n","o",
         "t"," ","a"," ","m","o","t","i","v","a","t","i","o","n"," ","p","r","o","b","l","e",
         "m",")","."," ","C","a","p","a","c","i","t","y"," ","m","u","s","t"," ","b","e"," ",
         "c","l","a","r","i","f","i","e","d"," ","f","i","r","s","t",","," ","t","h","e","n",
         " ","p","r","o","d","u","c","t"," ","m","i","x",","," ","t","h","e","n"," ","p","r",
         "i","c","i","n","g"," ","t","o"," ","t","h","r","o","t","t","l","e"," ","d","e","m",
         "a","n","d",".">>,
      required_inputs |->
       << <<"Y","o","u","r"," ","p","r","o","d","u","c","t","i","o","n"," ","s","t","e","p","s"," ","(",
            "d","e","s","i","g","n"," ","-",">"," ","c","u","t"," ","-",">"," ","f","i","n","i",
            "s","h"," ","-",">"," ","a","s","s","e","m","b","l","e"," ","-",">"," ","p","a","c",
            "k"," ","-",">"," ","s","h","i","p",")">>,
          <<"T","y","p","i","c","a","l"," ","l","a","b","o","r"," ","m","i","n","u","t","e","s"," ","p",
            "e","r"," ","p","r","o","d","u","c","t"," ","t","y","p","e">>,
          <<"C","u","r","r","e","n","t"," ","b","a","c","k","l","o","g"," ","+"," ","l","e","a","d"," ",
            "t","i","m","e","s">>,
          <<"W","h","i","c","h"," ","s","t","e","p"," ","i","s"," ","c","o","n","s","i","s","t","e","n",
            "t","l","y"," ","t","h","e"," ","b","o","t","t","l","e","n","e","c","k">> >>,
      stop_conditions |->
       << <<"D","o"," ","n","o","t"," ","a","d","d"," ","S","K","U","s"," ","o","r"," ","r","u","n"," ",
            "p","r","o","m","o","t","i","o","n","s"," ","w","h","i","l","e"," ","o","v","e","r",
            "l","o","a","d","e","d",".">>,
          <<"I","f"," ","b","o","t","t","l","e","n","e","c","k"," ","i","s"," ","f","o","u","n","d","e",
            "r"," ","t","i","m","e",","," ","c","o","n","s","t","r","a","i","n"," ","o","f","f",
            "e","r","s"," ","u","n","t","i","l"," ","r","e","l","i","e","v","e","d",".">> >> ]

PLAYBOOK_CUSTOMERS_ARE_DIFFICULT ==
    [ directives |-> << DIAGNOSE_CUSTOMER_QUALITY_MD, OPTIMIZE_PRODUCT_MIX_MD, DIAGNOSE_PRICING_MD >>,
      why |->
       <<"C","u","s","t","o","m","e","r"," ","f","r","i","c","t","i","o","n"," ","i","s"," ","u","s",
         "u","a","l","l","y"," ","c","a","u","s","e","d"," ","b","y"," ","b","o","u","n","d",
         "a","r","i","e","s"," ","(","o","f","f","e","r"," ","d","e","s","i","g","n",")",",",
         " ","m","i","s","m","a","t","c","h",","," ","o","r"," ","p","r","i","c","i","n","g",
         " ","t","h","a","t"," ","i","n","v","i","t","e","s"," ","t","h","e"," ","w","r","o",
         "n","g"," ","b","u","y","e","r","."," ","F","i","x"," ","c","l","a","s","s","i","f",
         "i","c","a","t","i","o","n"," ","f","i","r","s","t",","," ","t","h","e","n"," ","m",
         "i","x",","," ","t","h","e","n"," ","p","r","i","c","e",".">>,
      required_inputs |->
       << <<"E","x","a","m","p","l","e","s"," ","o","f"," ","d","i","f","f","i","c","u","l","t"," ","i",
            "n","t","e","r","a","c","t","i","o","n","s"," ","(","w","h","a","t"," ","t","r","i",
            "g","g","e","r","e","d"," ","f","r","i","c","t","i","o","n",")">>,
          <<"R","e","v","i","s","i","o","n"," ","c","o","u","n","t"," ","b","y"," ","o","r","d","e","r",
            " ","t","y","p","e">>,
          <<"R","e","f","u","n","d","/","d","i","s","c","o","u","n","t"," ","h","i","s","t","o","r","y",
            " ","(","i","f"," ","a","n","y",")">>,
          <<"C","u","r","r","e","n","t"," ","p","r","o","m","i","s","e","/","e","x","p","e","c","t","a",
            "t","i","o","n","s"," ","c","u","s","t","o","m","e","r","s"," ","b","u","y"," ","u",
            "n","d","e","r">> >>,
      stop_conditions |->
       << <<"D","o"," ","n","o","t"," ","a","c","c","e","p","t"," ","m","o","r","e"," ","c","u","s","t",
            "o","m","i","z","a","t","i","o","n"," ","u","n","t","i","l"," ","c","u","s","t","o",
            "m","e","r"," ","s","e","g","m","e","n","t","a","t","i","o","n"," ","i","s"," ","c",
            "l","a","r","i","f","i","e","d",".">>,
          <<"I","f"," ","r","e","v","i","s","i","o","n","s"," ","d","o","m","i","n","a","t","e",","," ",
            "t","i","g","h","t","e","n"," ","s","p","e","c"," ","+"," ","b","o","u","n","d","a",
            "r","i","e","s"," ","b","e","f","o","r","e"," ","s","c","a","l","i","n","g"," ","a",
            "c","q","u","i","s","i","t","i","o","n",".">> >> ]

PLAYBOOK_GROWTH_FEELS_RISKY ==
    [ directives |-> << DIAGNOSE_UNIT_ECONOMICS_MD, DIAGNOSE_CAPACITY_AND_THROUGHPUT_MD, DIAGNOSE_SCALABILITY_MD, OPTIMIZE_SCALING_STRATEGY_MD >>,
      why |->
       <<"I","f"," ","g","r","o","w","t","h"," ","f","e","e","l","s"," ","r","i","s","k","y",","," ",
         "y","o","u"," ","n","e","e","d"," ","p","r","o","o","f"," ","t","h","a","t"," ","t",
         "h","e"," ","m","o","d","e","l"," ","s","u","r","v","i","v","e","s"," ","s","c","a",
         "l","e","."," ","E","c","o","n","o","m","i","c","s"," ","+"," ","c","a","p","a","c",
         "i","t","y"," ","+"," ","s","c","a","l","a","b","i","l","i","t","y"," ","g","a","t",
         "e","s"," ","p","r","e","v","e","n","t"," ","e","x","p","e","n","s","i","v","e"," ",
         "m","i","s","t","a","k","e","s",".">>,
      required_inputs |->
       << <<"U","n","i","t"," ","e","c","o","n","o","m","i","c","s"," ","p","e","r"," ","o","f","f","e",
            "r">>,
          <<"C","a","p","a","c","i","t","y"," ","c","o","n","s","t","r","a","i","n","t","s"," ","a","n",
            "d"," ","b","o","t","t","l","e","n","e","c","k","s">>,
          <<"W","h","i","c","h"," ","s","c","a","l","i","n","g"," ","p","a","t","h"," ","y","o","u","'",
            "r","e"," ","c","o","n","s","i","d","e","r","i","n","g"," ","(","a","d","s",","," ",
            "w","h","o","l","e","s","a","l","e",","," ","h","i","r","i","n","g",","," ","e","t",
            "c",".",")">> >>,
      stop_conditions |->
       << <<"I","f"," ","d","i","a","g","n","o","s","e","_","s","c","a","l","a","b","i","l","i","t","y",
            " ","r","e","t","u","r","n","s"," ","D","o"," ","N","o","t"," ","S","c","a","l","e",
            ","," ","s","t","o","p"," ","s","c","a","l","i","n","g"," ","a","c","t","i","o","n",
            "s"," ","a","n","d"," ","s","t","a","b","i","l","i","z","e"," ","f","i","r","s","t",
            ".">> >> ]

PLAYBOOK_FINANCIAL_VIABILITY ==
    [ directives |-> << DIAGNOSE_UNIT_ECONOMICS_MD >>,
      why |->
       <<"Y","o","u","'","r","e"," ","a","s","k","i","n","g"," ","a"," ","p","r","o","f","i","t","/",
         "c","a","s","h","f","l","o","w"," ","v","i","a","b","i","l","i","t","y"," ","q","u",
         "e","s","t","i","o","n","."," ","U","n","i","t"," ","e","c","o","n","o","m","i","c",
         "s"," ","i","s"," ","t","h","e"," ","f","a","s","t","e","s","t"," ","t","r","u","t",
         "h"," ","s","o","u","r","c","e",".">>,
      required_inputs |->
       << <<"O","n","e"," ","r","e","p","r","e","s","e","n","t","a","t","i","v","e"," ","p","r","o","d",
            "u","c","t"," ","o","r","d","e","r"," ","(","p","r","i","c","e"," ","+"," ","c","o",
            "s","t","s"," ","+"," ","l","a","b","o","r"," ","t","i","m","e",")">>,
          <<"Y","o","u","r"," ","b","e","s","t"," ","e","s","t","i","m","a","t","e"," ","C","A","C"," ",
            "p","e","r"," ","c","h","a","n","n","e","l"," ","(","e","v","e","n"," ","i","f"," ",
            "e","a","r","l","y",")">> >>,
      stop_conditions |->
       << <<"I","f"," ","u","n","i","t"," ","e","c","o","n","o","m","i","c","s"," ","F","A","I","L",",",
            " ","d","o"," ","n","o","t"," ","s","c","a","l","e"," ","a","c","q","u","i","s","i",
            "t","i","o","n"," ","o","r"," ","a","d","d"," ","c","o","m","p","l","e","x","i","t",
            "y",".">> >> ]

PLAYBOOK_CAPACITY_OPERATIONS ==
    [ directives |-> << DIAGNOSE_CAPACITY_AND_THROUGHPUT_MD, OPTIMIZE_PRODUCT_MIX_MD >>,
      why |->
       <<"O","p","e","r","a","t","i","o","n","s"," ","d","e","c","i","s","i","o","n","s"," ","m","u",
         "s","t"," ","s","t","a","r","t"," ","w","i","t","h"," ","t","h","e"," ","b","o","t",
         "t","l","e","n","e","c","k"," ","a","n","d"," ","t","h","r","o","u","g","h","p","u",
         "t"," ","r","e","a","l","i","t","y",".">>,
      required_inputs |->
       << <<"W","o","r","k","f","l","o","w"," ","s","t","e","p","s"," ","+"," ","t","i","m","e"," ","p",
            "e","r"," ","s","t","e","p">>,
          <<"C","u","r","r","e","n","t"," ","b","a","c","k","l","o","g",","," ","l","e","a","d"," ","t",
            "i","m","e","s",","," ","a","n","d"," ","w","o","r","k","-","i","n","-","p","r","o",
            "g","r","e","s","s"," ","l","i","m","i","t","s">> >>,
      stop_conditions |->
       << <<"I","f"," ","a"," ","s","i","n","g","l","e"," ","b","o","t","t","l","e","n","e","c","k"," ",
            "d","o","m","i","n","a","t","e","s",","," ","o","p","t","i","m","i","z","e"," ","t",
            "h","a","t"," ","b","e","f","o","r","e"," ","a","d","d","i","n","g"," ","d","e","m",
            "a","n","d",".">> >> ]

PLAYBOOK_CUSTOMER_QUALITY ==
    [ directives |-> << DIAGNOSE_CUSTOMER_QUALITY_MD >>,
      why |->
       <<"C","u","s","t","o","m","e","r"," ","q","u","a","l","i","t","y"," ","m","u","s","t"," ","b",
         "e"," ","c","l","a","s","s","i","f","i","e","d"," ","b","e","f","o","r","e"," ","p",
         "r","i","c","i","n","g","/","a","c","q","u","i","s","i","t","i","o","n"," ","c","h",
         "a","n","g","e","s",".">>,
      required_inputs |->
       << <<"L","a","s","t"," ","1","0","-","3","0"," ","c","u","s","t","o","m","e","r"," ","i","n","t",
            "e","r","a","c","t","i","o","n","s"," ","o","r"," ","o","r","d","e","r","s">>,
          <<"C","o","m","m","o","n"," ","f","r","i","c","t","i","o","n"," ","p","o","i","n","t","s">> >>,
      stop_conditions |->
       << <<"I","f"," ","m","a","j","o","r","i","t","y"," ","i","s"," ","m","i","s","a","l","i","g","n",
            "e","d","/","h","i","g","h","-","f","r","i","c","t","i","o","n",","," ","t","i","g",
            "h","t","e","n"," ","o","f","f","e","r"," ","b","o","u","n","d","a","r","i","e","s",
            " ","b","e","f","o","r","e"," ","s","c","a","l","i","n","g",".">> >> ]

PLAYBOOK_PRICING ==
    [ directives |-> << DIAGNOSE_CUSTOMER_QUALITY_MD, DIAGNOSE_CAPACITY_AND_THROUGHPUT_MD, DIAGNOSE_PRICING_MD >>,
      why |->
       <<"P","r","i","c","i","n","g"," ","c","h","a","n","g","e","s"," ","r","e","q","u","i","r","e",
         " ","c","u","s","t","o","m","e","r","-","f","i","t"," ","c","l","a","r","i","t","y",
         " ","a","n","d"," ","c","a","p","a","c","i","t","y"," ","r","e","a","l","i","t","y",
         " ","f","i","r","s","t",".">>,
      required_inputs |->
       << <<"C","u","r","r","e","n","t"," ","p","r","i","c","e"," ","l","i","s","t">>,
          <<"A","n","y"," ","c","l","o","s","e"," ","r","a","t","e"," ","(","e","v","e","n"," ","r","o",
            "u","g","h",")"," ","o","r"," ","i","n","q","u","i","r","y","-","t","o","-","o","r",
            "d","e","r"," ","r","a","t","i","o">>,
          <<"L","e","a","d"," ","t","i","m","e","/","b","a","c","k","l","o","g"," ","s","n","a","p","s",
            "h","o","t">> >>,
      stop_conditions |->
       << <<"D","o"," ","n","o","t"," ","d","i","s","c","o","u","n","t"," ","b","y"," ","d","e","f","a",
            "u","l","t",";"," ","f","i","x"," ","f","i","t"," ","a","n","d"," ","s","a","l","e",
            "s"," ","m","o","t","i","o","n"," ","f","i","r","s","t",".">> >> ]

PLAYBOOK_ACQUISITION ==
    [ directives |-> << DIAGNOSE_ACQUISITION_QUALITY_MD >>,
      why |->
       <<"A","c","q","u","i","s","i","t","i","o","n"," ","d","e","c","i","s","i","o","n","s"," ","m",
         "u","s","t"," ","v","e","r","i","f","y"," ","l","e","a","d"," ","q","u","a","l","i",
         "t","y"," ","a","n","d"," ","C","A","C"," ","d","i","s","c","i","p","l","i","n","e",
         " ","b","e","f","o","r","e"," ","s","c","a","l","i","n","g"," ","s","p","e","n","d",".">>,
      required_inputs |->
       << <<"P","l","a","n","n","e","d"," ","c","h","a","n","n","e","l","s"," ","(","o","r","g","a","n",
            "i","c",","," ","p","a","i","d",","," ","r","e","f","e","r","r","a","l","s",")">>,
          <<"B","u","d","g","e","t"," ","c","o","n","s","t","r","a","i","n","t","s"," ","(","e","v","e",
            "n"," ","r","o","u","g","h",")">>,
          <<"T","a","r","g","e","t"," ","c","u","s","t","o","m","e","r"," ","d","e","s","c","r","i","p",
            "t","i","o","n">> >>,
      stop_conditions |->
       << <<"D","o"," ","n","o","t"," ","s","c","a","l","e"," ","s","p","e","n","d"," ","u","n","l","e",
            "s","s"," ","C","A","C"," ","<","="," ","L","T","V"," ","/"," ","1","2"," ","(","1",
            "2",":","1","+"," ","L","T","V",":","C","A","C",")",".">> >> ]

PLAYBOOK_PRODUCT_OFFER ==
    [ directives |-> << DIAGNOSE_CAPACITY_AND_THROUGHPUT_MD, OPTIMIZE_PRODUCT_MIX_MD >>,
      why |->
       <<"O","f","f","e","r"," ","c","h","a","n","g","e","s"," ","m","u","s","t"," ","r","e","s","p",
         "e","c","t"," ","b","o","t","t","l","e","n","e","c","k","s"," ","a","n","d"," ","t",
         "h","r","o","u","g","h","p","u","t",";"," ","o","t","h","e","r","w","i","s","e"," ",
         "y","o","u"," ","m","a","n","u","f","a","c","t","u","r","e"," ","o","v","e","r","l",
         "o","a","d",".">>,
      required_inputs |->
       << <<"C","u","r","r","e","n","t"," ","S","K","U","s","/","o","f","f","e","r","s"," ","a","n","d",
            " ","r","o","u","g","h"," ","t","i","m","e","/","c","o","s","t"," ","p","e","r"," ",
            "o","n","e">>,
          <<"W","h","i","c","h"," ","o","f","f","e","r","s"," ","y","o","u"," ","w","a","n","t"," ","t",
            "o"," ","a","d","d","/","r","e","m","o","v","e">> >>,
      stop_conditions |->
       << <<"I","f"," ","t","h","e"," ","b","o","t","t","l","e","n","e","c","k"," ","s","t","e","p"," ",
            "i","s"," ","o","v","e","r","l","o","a","d","e","d",","," ","d","o"," ","n","o","t",
            " ","a","d","d"," ","o","f","f","e","r","s"," ","t","h","a","t"," ","h","i","t"," ",
            "i","t"," ","h","a","r","d","e","r",".">> >> ]

PLAYBOOK_SCALING_GROWTH ==
    [ directives |-> << DIAGNOSE_SCALABILITY_MD, OPTIMIZE_SCALING_STRATEGY_MD >>,
      why |->
       <<"G","r","o","w","t","h"," ","d","e","c","i","s","i","o","n","s"," ","r","e","q","u","i","r",
         "e"," ","s","c","a","l","a","b","i","l","i","t","y"," ","d","i","a","g","n","o","s",
         "i","s"," ","b","e","f","o","r","e"," ","c","h","o","o","s","i","n","g"," ","a"," ",
         "s","c","a","l","i","n","g"," ","s","t","r","a","t","e","g","y",".">>,
      required_inputs |->
       << <<"Y","o","u","r"," ","i","n","t","e","n","d","e","d"," ","g","r","o","w","t","h"," ","p","a",
            "t","h"," ","(","a","d","s",","," ","w","h","o","l","e","s","a","l","e",","," ","h",
            "i","r","i","n","g",","," ","l","i","c","e","n","s","i","n","g",","," ","e","t","c",
            ".",")">>,
          <<"U","n","i","t"," ","e","c","o","n","o","m","i","c","s"," ","s","n","a","p","s","h","o","t">>,
          <<"C","a","p","a","c","i","t","y"," ","b","o","t","t","l","e","n","e","c","k"," ","s","n","a",
            "p","s","h","o","t">> >>,
      stop_conditions |->
       << <<"I","f"," ","d","i","a","g","n","o","s","e","_","s","c","a","l","a","b","i","l","i","t","y",
            " ","r","e","t","u","r","n","s"," ","D","o"," ","N","o","t"," ","S","c","a","l","e",
            ","," ","s","t","o","p"," ","a","n","d"," ","s","t","a","b","i","l","i","z","e"," ",
            "f","i","r","s","t",".">> >> ]

PLAYBOOK_STRATEGIC_DIRECTION ==
    [ directives |-> << DIAGNOSE_CAPACITY_AND_THROUGHPUT_MD, DIAGNOSE_CUSTOMER_QUALITY_MD, DIAGNOSE_PRICING_MD, OPTIMIZE_PRODUCT_MIX_MD, DIAGNOSE_ACQUISITION_QUALITY_MD, DIAGNOSE_SCALABILITY_MD, OPTIMIZE_SCALING_STRATEGY_MD >>,
      why |->
       <<"W","h","e","n"," ","d","i","r","e","c","t","i","o","n"," ","i","s"," ","u","n","c","l","e",
         "a","r",","," ","w","e"," ","r","u","n"," ","t","h","e"," ","s","t","a","b","i","l",
         "i","z","a","t","i","o","n"," ","s","t","a","c","k"," ","i","n"," ","t","h","e"," ",
         "s","a","f","e","s","t"," ","o","r","d","e","r",","," ","t","h","e","n"," ","s","e",
         "l","e","c","t"," ","a"," ","s","c","a","l","i","n","g"," ","s","t","r","a","t","e",
         "g","y"," ","o","n","l","y"," ","a","f","t","e","r"," ","d","i","a","g","n","o","s",
         "t","i","c","s"," ","p","a","s","s",".">>,
      required_inputs |->
       << <<"W","h","a","t"," ","y","o","u"," ","s","e","l","l"," ","(","o","r"," ","p","l","a","n"," ",
            "t","o"," ","s","e","l","l",")"," ","+"," ","p","r","i","c","e"," ","p","o","i","n",
            "t","s">>,
          <<"Y","o","u","r"," ","b","e","s","t"," ","e","s","t","i","m","a","t","e"," ","o","f"," ","c",
            "o","s","t","s"," ","a","n","d"," ","t","i","m","e"," ","p","e","r"," ","p","r","o",
            "d","u","c","t">>,
          <<"W","h","o"," ","y","o","u"," ","w","a","n","t"," ","t","o"," ","s","e","r","v","e">>,
          <<"A","n","y"," ","e","a","r","l","y"," ","l","e","a","d"," ","s","o","u","r","c","e","s"," ",
            "o","r"," ","i","n","t","e","r","e","s","t"," ","s","i","g","n","a","l","s">> >>,
      stop_conditions |->
       << <<"I","f"," ","a","n","y"," ","d","i","a","g","n","o","s","t","i","c"," ","r","e","t","u","r",
            "n","s"," ","F","A","I","L","/","D","o"," ","N","o","t"," ","S","c","a","l","e",",",
            " ","p","a","u","s","e"," ","d","o","w","n","s","t","r","e","a","m"," ","d","i","r",
            "e","c","t","i","v","e","s"," ","a","n","d"," ","f","i","x"," ","u","p","s","t","r",
            "e","a","m"," ","c","o","n","s","t","r","a","i","n","t","s",".">> >> ]

BLOCKED_WHY ==
    <<"D","e","f","i","n","i","t","i","o","n","s"," ","G","a","t","e"," ","F","A","I","L",":"," ",
      "L","T","V","/","C","A","C"," ","d","e","f","i","n","i","t","i","o","n","s"," ","a","r",
      "e"," ","m","i","s","s","i","n","g"," ","o","r"," ","i","n","c","o","m","p","l","e","t",
      "e","."," ","N","o"," ","o","t","h","e","r"," ","r","o","u","t","i","n","g"," ","i","s",
      " ","a","l","l","o","w","e","d"," ","u","n","t","i","l"," ","d","e","f","i","n","i","t",
      "i","o","n","s"," ","a","r","e"," ","e","s","t","a","b","l","i","s","h","e","d",".">>

BLOCKED_REQUIRED_INPUTS ==
    << <<"Y","o","u","r"," ","p","r","i","m","a","r","y"," ","o","f","f","e","r","(","s",")"," ","a",
         "n","d"," ","p","r","i","c","i","n","g">>,
       <<"O","r","d","e","r","-","t","o","-","d","e","l","i","v","e","r","y"," ","w","o","r","k","f",
         "l","o","w"," ","s","u","m","m","a","r","y">>,
       <<"C","O","G","S"," ","a","s","s","u","m","p","t","i","o","n","s"," ","(","m","a","t","e","r",
         "i","a","l","s",","," ","l","a","b","o","r",","," ","p","a","c","k","a","g","i","n",
         "g",","," ","s","h","i","p","p","i","n","g",")">>,
       <<"A","c","q","u","i","s","i","t","i","o","n"," ","c","h","a","n","n","e","l","s"," ","y","o",
         "u"," ","p","l","a","n"," ","t","o"," ","u","s","e"," ","(","p","a","i","d",","," ",
         "o","r","g","a","n","i","c",","," ","r","e","f","e","r","r","a","l","s",")">> >>

BLOCKED_STOP_PREFIX ==
    <<"M","i","s","s","i","n","g"," ","r","e","q","u","i","r","e","d"," ","d","e","f","i","n","i",
      "t","i","o","n"," ","f","i","l","e","(","s",")",":"," ">>

BLOCKED_STOP_SECOND ==
    <<"D","o"," ","n","o","t"," ","c","h","a","n","g","e"," ","p","r","i","c","i","n","g",","," ",
      "m","a","r","k","e","t","i","n","g",","," ","o","r"," ","p","r","o","d","u","c","t"," ",
      "m","i","x"," ","u","n","t","i","l"," ","L","T","V","/","C","A","C"," ","a","r","e"," ",
      "d","e","f","i","n","e","d",".">>

BLOCKED_NOTES ==
    << <<"T","h","i","s"," ","i","s"," ","a"," ","h","a","r","d"," ","s","t","o","p"," ","b","y"," ",
         "d","e","s","i","g","n","."," ","I","t"," ","p","r","o","t","e","c","t","s"," ","y",
         "o","u","r"," ","1","2",":","1","+"," ","L","T","V",":","C","A","C"," ","g","o","a",
         "l",".">> >>

UNIVERSAL_NOTES ==
    << <<"C","o","n","s","e","r","v","a","t","i","v","e"," ","r","o","u","t","i","n","g"," ","i","s",
         " ","i","n","t","e","n","t","i","o","n","a","l",":"," ","p","r","e","m","i","u","m",
         " ","c","r","a","f","t"," ","b","u","s","i","n","e","s","s","e","s"," ","w","i","n",
         " ","b","y"," ","f","i","t"," ","+"," ","m","a","r","g","i","n","s"," ","+"," ","t",
         "h","r","o","u","g","h","p","u","t",","," ","n","o","t"," ","v","o","l","u","m","e",".">>,
       <<"I","f"," ","y","o","u"," ","a","r","e"," ","p","r","e","-","l","a","u","n","c","h",","," ",
         "s","u","b","s","t","i","t","u","t","e"," ","'","b","e","s","t"," ","e","s","t","i",
         "m","a","t","e","s","'"," ","a","n","d"," ","u","p","d","a","t","e"," ","a","f","t",
         "e","r"," ","f","i","r","s","t"," ","1","0","-","2","0"," ","o","r","d","e","r","s",".">> >>

GATE_FAIL_MARKER ==
    <<"D","e","f","i","n","i","t","i","o","n","s"," ","G","a","t","e"," ","F","A","I","L">>

ASK_MAPPING ==
    <<"1">> :> "Pricing"
    @@ <<"2">> :> "Acquisition"
    @@ <<"3">> :> "Product / Offer"
    @@ <<"4">> :> "Capacity / Operations"
    @@ <<"5">> :> "Customer Quality"
    @@ <<"6">> :> "Scaling / Growth"
    @@ <<"7">> :> "Financial Viability"
    @@ <<"8">> :> "Strategic Direction"

DE_KW_UNIT_ECONOMICS ==
    << <<"u","n","i","t"," ","e","c","o","n","o","m","i","c","s">>,
       <<"m","a","r","g","i","n">>,
       <<"p","r","o","f","i","t">>,
       <<"v","i","a","b","l","e">>,
       <<"m","a","k","e"," ","m","o","n","e","y">>,
       <<"p","r","i","c","i","n","g"," ","v","i","a","b","i","l","i","t","y">> >>

DE_KW_PRICING ==
    << <<"p","r","i","c","i","n","g">>,
       <<"p","r","i","c","e">>,
       <<"c","a","c">>,
       <<"l","t","v">>,
       <<"1","2",":","1">>,
       <<"a","c","q","u","i","s","i","t","i","o","n">>,
       <<"c","u","s","t","o","m","e","r"," ","a","c","q","u","i","s","i","t","i","o","n">>,
       <<"h","o","w"," ","m","u","c","h"," ","c","a","n"," ","i"," ","s","p","e","n","d">> >>

DE_KW_SCALING ==
    << <<"s","c","a","l","e">>,
       <<"c","a","p","a","c","i","t","y">>,
       <<"t","h","r","o","u","g","h","p","u","t">>,
       <<"b","o","t","t","l","e","n","e","c","k">>,
       <<"h","i","r","e">>,
       <<"v","o","l","u","m","e">> >>

DE_KW_PRODUCT_MIX ==
    << <<"p","r","o","d","u","c","t"," ","m","i","x">>,
       <<"b","u","n","d","l","e">>,
       <<"v","a","r","i","a","n","t","s">>,
       <<"w","h","i","c","h"," ","p","r","o","d","u","c","t">>,
       <<"b","e","s","t"," ","p","r","o","d","u","c","t">> >>

DE_KW_CUSTOMER ==
    << <<"c","u","s","t","o","m","e","r"," ","q","u","a","l","i","t","y">>,
       <<"c","h","u","r","n">>,
       <<"r","e","f","u","n","d">>,
       <<"r","e","t","e","n","t","i","o","n">>,
       <<"l","e","a","d"," ","q","u","a","l","i","t","y">> >>

\* -------------------------------------------------------------------------
\* Inputs of the model
\* -------------------------------------------------------------------------
\* Words the question texts are built from
VOCAB ==
    { <<"R","e","f","u","n","d">>,
      <<"h","e","l","l","o">>,
      <<"P","r","i","c","e">>,
      <<"g","r","o","s","s"," ","m","a","r","g","i","n">>,
      <<"r","i","s","k","y">>,
      <<" ">> }

\* Lines the user may type at the clarifying prompt
ANSWERS ==
    { <<"1">>,
      <<"2">>,
      <<"3">>,
      <<"4">>,
      <<"5">>,
      <<"6">>,
      <<"7">>,
      <<"8">>,
      <<"9">>,
      << >>,
      <<" ","4"," ">> }

\* -------------------------------------------------------------------------
\* Classification logic
\* -------------------------------------------------------------------------
\* normalize_whitespace(s)
normalize_whitespace(s) == Strip(CollapseWhitespace(s))

\* any(kw in q for kw in kws)
AnyIn(kws, q) == \E i \in 1..Len(kws) : Contains(q, kws[i])

\* number of entries kw of kws with kw in q
Hits(kws, q) == Cardinality({ i \in 1..Len(kws) : Contains(q, kws[i]) })

\* scores of classify_decision_type
Scores(question) ==
    LET q == Lower(question)
    IN  [ dtype \in Range(KEYWORDS_DECISION_TYPE_ORDER) |-> Hits(KEYWORDS_DECISION_TYPE[dtype], q) ]

MaxScore(scores) ==
    CHOOSE m \in Range([ i \in 1..Len(DECISION_TYPES) |-> scores[DECISION_TYPES[i]] ]) :
        \A k \in Range(DECISION_TYPES) : scores[k] <= m

PRIORITY ==
    << "Financial Viability",
       "Capacity / Operations",
       "Customer Quality",
       "Pricing",
       "Product / Offer",
       "Acquisition",
       "Scaling / Growth",
       "Strategic Direction" >>

\* first element of order that is in matching, or dflt when there is none
FirstIn(order, matching, dflt) ==
    IF \E i \in 1..Len(order) : order[i] \in matching
    THEN order[CHOOSE i \in 1..Len(order) :
                   order[i] \in matching /\ \A j \in 1..(i - 1) : order[j] \notin matching]
    ELSE dflt

\* variant: a tie goes to the first tied entry of DECISION_TYPES
PickTied_DeclarationOrder(scores, best_score) ==
    LET tied == SelectSeq(DECISION_TYPES, LAMBDA k : scores[k] = best_score)
    IN  tied[1]

PickTied(scores, best_score) ==
    LET tied == SelectSeq(DECISION_TYPES, LAMBDA k : scores[k] = best_score)
    IN  FirstIn(PRIORITY, Range(tied), tied[1])

classify_decision_type(question) ==
    LET scores == Scores(question)
        best_score == MaxScore(scores)
    IN  IF best_score = 0 THEN None ELSE PickTied(scores, best_score)

\* variant: the horizon with the most matching keywords wins, the earlier one on a tie
classify_time_horizon_MostHits(question) ==
    LET q == Lower(question)
        hits == [ horizon \in Range(KEYWORDS_TIME_HORIZON_ORDER) |->
                    Hits(KEYWORDS_TIME_HORIZON[horizon], q) ]
        best == CHOOSE m \in { hits[horizon] : horizon \in DOMAIN hits } :
                    \A horizon \in DOMAIN hits : hits[horizon] <= m
    IN  FirstIn(KEYWORDS_TIME_HORIZON_ORDER,
                { horizon \in DOMAIN hits : hits[horizon] = best /\ best > 0 },
                "Short (weeks)")

classify_time_horizon(question) ==
    LET q == Lower(question)
    IN  FirstIn(KEYWORDS_TIME_HORIZON_ORDER,
                { horizon \in Range(KEYWORDS_TIME_HORIZON_ORDER) :
                    AnyIn(KEYWORDS_TIME_HORIZON[horizon], q) },
                "Short (weeks)")

\* variant: the question is matched without lower-casing
classify_pain_signal_CaseSensitive(question) ==
    FirstIn(PAIN_SIGNALS_ORDER,
            { label \in Range(PAIN_SIGNALS_ORDER) : AnyIn(PAIN_SIGNALS[label], question) },
            "Not sure what to do next")

classify_pain_signal(question) ==
    LET q == Lower(question)
    IN  FirstIn(PAIN_SIGNALS_ORDER,
                { label \in Range(PAIN_SIGNALS_ORDER) : AnyIn(PAIN_SIGNALS[label], q) },
                "Not sure what to do next")

\* variant: the clarifying question is never required
needs_one_clarifying_question_Never(decision_type) == FALSE

needs_one_clarifying_question(decision_type) == decision_type = None

\* variant: an answer outside the menu leaves the decision type unset
ask_one_question_NoDefault(line) ==
    LET raw == Strip(line)
    IN  IF raw \in DOMAIN ASK_MAPPING THEN ASK_MAPPING[raw] ELSE None

\* ask_one_question(): the value returned for the line read from stdin
ask_one_question(line) ==
    LET raw == Strip(line)
    IN  IF raw \in DOMAIN ASK_MAPPING THEN ASK_MAPPING[raw] ELSE "Strategic Direction"

\* -------------------------------------------------------------------------
\* Routing rules
\* -------------------------------------------------------------------------
file_exists(files, name) == name \in files

enforce_definitions_gate(files) ==
    LET missing == SelectSeq(REQUIRED_DEFINITION_FILES, LAMBDA fname : ~file_exists(files, fname))
    IN  [ ok |-> Len(missing) = 0, missing |-> missing ]

\* the RoutedDecision returned when the definitions gate fails
BlockedDecision(decision_type, pain_signal, time_horizon, defs_missing) ==
    [ decision_type |-> decision_type,
      pain_signal |-> pain_signal,
      time_horizon |-> time_horizon,
      directives |-> << DEFINE_LTV_MODEL_MD, DEFINE_CAC_MODEL_MD >>,
      why |-> BLOCKED_WHY,
      required_inputs |-> BLOCKED_REQUIRED_INPUTS,
      stop_conditions |-> << BLOCKED_STOP_PREFIX \o Join(<<",", " ">>, defs_missing),
                             BLOCKED_STOP_SECOND >>,
      notes |-> BLOCKED_NOTES ]

\* variant: the "Growth feels risky" branch is missing, so that pain signal falls through
\* to the decision-type branches
Playbook_NoGrowthBranch(decision_type, pain_signal) ==
    IF pain_signal = "Sales are slow" THEN PLAYBOOK_SALES_ARE_SLOW
    ELSE IF pain_signal = "Margins feel thin" THEN PLAYBOOK_MARGINS_FEEL_THIN
    ELSE IF pain_signal = "I'm overloaded" THEN PLAYBOOK_IM_OVERLOADED
    ELSE IF pain_signal = "Customers are difficult" THEN PLAYBOOK_CUSTOMERS_ARE_DIFFICULT
    ELSE IF decision_type = "Financial Viability" THEN PLAYBOOK_FINANCIAL_VIABILITY
    ELSE IF decision_type = "Capacity / Operations" THEN PLAYBOOK_CAPACITY_OPERATIONS
    ELSE IF decision_type = "Customer Quality" THEN PLAYBOOK_CUSTOMER_QUALITY
    ELSE IF decision_type = "Pricing" THEN PLAYBOOK_PRICING
    ELSE IF decision_type = "Acquisition" THEN PLAYBOOK_ACQUISITION
    ELSE IF decision_type = "Product / Offer" THEN PLAYBOOK_PRODUCT_OFFER
    ELSE IF decision_type = "Scaling / Growth" THEN PLAYBOOK_SCALING_GROWTH
    ELSE PLAYBOOK_STRATEGIC_DIRECTION

\* the if/elif chain of route(): pain signal first, then decision type
Playbook(decision_type, pain_signal) ==
    IF pain_signal = "Sales are slow" THEN PLAYBOOK_SALES_ARE_SLOW
    ELSE IF pain_signal = "Margins feel thin" THEN PLAYBOOK_MARGINS_FEEL_THIN
    ELSE IF pain_signal = "I'm overloaded" THEN PLAYBOOK_IM_OVERLOADED
    ELSE IF pain_signal = "Customers are difficult" THEN PLAYBOOK_CUSTOMERS_ARE_DIFFICULT
    ELSE IF pain_signal = "Growth feels risky" THEN PLAYBOOK_GROWTH_FEELS_RISKY
    ELSE IF decision_type = "Financial Viability" THEN PLAYBOOK_FINANCIAL_VIABILITY
    ELSE IF decision_type = "Capacity / Operations" THEN PLAYBOOK_CAPACITY_OPERATIONS
    ELSE IF decision_type = "Customer Quality" THEN PLAYBOOK_CUSTOMER_QUALITY
    ELSE IF decision_type = "Pricing" THEN PLAYBOOK_PRICING
    ELSE IF decision_type = "Acquisition" THEN PLAYBOOK_ACQUISITION
    ELSE IF decision_type = "Product / Offer" THEN PLAYBOOK_PRODUCT_OFFER
    ELSE IF decision_type = "Scaling / Growth" THEN PLAYBOOK_SCALING_GROWTH
    ELSE PLAYBOOK_STRATEGIC_DIRECTION

\* variant: only the fallback branch appends the universal notes
RoutedDecisionOf_NotesOnFallbackOnly(decision_type, pain_signal, time_horizon) ==
    LET p == Playbook(decision_type, pain_signal)
    IN  [ decision_type |-> decision_type,
          pain_signal |-> pain_signal,
          time_horizon |-> time_horizon,
          directives |-> p.directives,
          why |-> p.why,
          required_inputs |-> p.required_inputs,
          stop_conditions |-> p.stop_conditions,
          notes |-> IF p = PLAYBOOK_STRATEGIC_DIRECTION THEN UNIVERSAL_NOTES ELSE << >> ]

\* the RoutedDecision returned when the definitions gate passes
RoutedDecisionOf(decision_type, pain_signal, time_horizon) ==
    LET p == Playbook(decision_type, pain_signal)
    IN  [ decision_type |-> decision_type,
          pain_signal |-> pain_signal,
          time_horizon |-> time_horizon,
          directives |-> p.directives,
          why |-> p.why,
          required_inputs |-> p.required_inputs,
          stop_conditions |-> p.stop_conditions,
          notes |-> << >> \o UNIVERSAL_NOTES ]

\* variant: the hard stop is never recognised
IsHardStop_Never(result) == FALSE

\* main(): the test that selects exit status 2
IsHardStop(result) ==
    \/ Contains(result.why, GATE_FAIL_MARKER)
    \/ \E i \in 1..Len(REQUIRED_DEFINITION_FILES) :
           Contains(result.stop_conditions[1], REQUIRED_DEFINITION_FILES[i])

\* -------------------------------------------------------------------------
\* Output formatting
\* -------------------------------------------------------------------------
\* the concatenation of the strings of parts
RECURSIVE Concat(_)
Concat(parts) ==
    IF parts = << >> THEN << >>
    ELSE IF Len(parts) = 1 THEN parts[1]
    ELSE LET h == Len(parts) \div 2
         IN  Concat(SubSeq(parts, 1, h)) \o Concat(SubSeq(parts, h + 1, Len(parts)))

\* the text of a classification label, kept as one piece
LabelText(label) == << label >>

\* json.dumps: the characters written as escapes inside a string (the texts of the router
\* are ASCII here, so no \uXXXX escape arises)
JSON_ESCAPES ==
       "\"" :> <<"\\", "\"">>
    @@ "\\" :> <<"\\", "\\">>
    @@ "\n" :> <<"\\", "n">>
    @@ "\t" :> <<"\\", "t">>

\* json.dumps of a str
json_string(s) ==
    <<"\"">>
    \o Concat([ i \in 1..Len(s) |->
                  IF s[i] \in DOMAIN JSON_ESCAPES THEN JSON_ESCAPES[s[i]] ELSE << s[i] >> ])
    \o <<"\"">>

\* json.dumps(..., indent=2) of a list of str that is a value of the top-level object
json_list(items) ==
    IF items = << >> THEN <<"[", "]">>
    ELSE <<"[", "\n">>
         \o Join(<<",", "\n">>,
                 [ i \in 1..Len(items) |-> <<" ", " ", " ", " ">> \o json_string(items[i]) ])
         \o <<"\n", " ", " ", "]">>

\* json.dumps(payload, indent=2) of a dict given as its << key, value text >> items
json_dumps(items) ==
    <<"{", "\n">>
    \o Join(<<",", "\n">>,
            [ i \in 1..Len(items) |->
                <<" ", " ">> \o json_string(items[i][1]) \o <<":", " ">> \o items[i][2] ])
    \o <<"\n", "}">>

\* to_json(): the keys of payload
PAYLOAD_KEYS ==
    [ decision_type |-> <<"d","e","c","i","s","i","o","n","_","t","y","p","e">>,
      pain_signal |-> <<"p","a","i","n","_","s","i","g","n","a","l">>,
      time_horizon |-> <<"t","i","m","e","_","h","o","r","i","z","o","n">>,
      directives |-> <<"d","i","r","e","c","t","i","v","e","s">>,
      why |-> <<"w","h","y">>,
      required_inputs |-> <<"r","e","q","u","i","r","e","d","_","i","n","p","u","t","s">>,
      stop_conditions |-> <<"s","t","o","p","_","c","o","n","d","i","t","i","o","n","s">>,
      notes |-> <<"n","o","t","e","s">> ]

\* format_routing_output(): the fixed lines and line starts
OUTPUT_LINES ==
    [ head_directives |-> <<"D","e","c","i","s","i","o","n"," ","R","o","u","t","e","d"," ","T","o",":">>,
      head_why |-> <<"W","h","y"," ","T","h","i","s"," ","C","o","m","e","s"," ","N","e","x","t",":">>,
      head_required_inputs |-> <<"R","e","q","u","i","r","e","d"," ","I","n","p","u","t","s",":">>,
      head_stop_conditions |-> <<"E","x","p","l","i","c","i","t"," ","S","t","o","p"," ","C","o","n","d","i","t","i","o","n","s",":">>,
      head_notes |-> <<"N","o","t","e","s",":">>,
      head_classification |-> <<"C","l","a","s","s","i","f","i","c","a","t","i","o","n",":">>,
      line_decision_type |-> <<"-"," ","D","e","c","i","s","i","o","n"," ","T","y","p","e",":"," ">>,
      line_pain_signal |-> <<"-"," ","P","a","i","n"," ","S","i","g","n","a","l",":"," ">>,
      line_time_horizon |-> <<"-"," ","T","i","m","e"," ","H","o","r","i","z","o","n",":"," ">> ]

\* to_json(): payload
payload(result) ==
    << << PAYLOAD_KEYS.decision_type, json_string(LabelText(result.decision_type)) >>,
       << PAYLOAD_KEYS.pain_signal, json_string(LabelText(result.pain_signal)) >>,
       << PAYLOAD_KEYS.time_horizon, json_string(LabelText(result.time_horizon)) >>,
       << PAYLOAD_KEYS.directives, json_list(result.directives) >>,
       << PAYLOAD_KEYS.why, json_string(result.why) >>,
       << PAYLOAD_KEYS.required_inputs, json_list(result.required_inputs) >>,
       << PAYLOAD_KEYS.stop_conditions, json_list(result.stop_conditions) >>,
       << PAYLOAD_KEYS.notes, json_list(result.notes) >> >>

\* variant: the directives are written last to first
to_json_DirectivesReversed(result) ==
    json_dumps(payload([ result EXCEPT
        !.directives = [ i \in 1..Len(@) |-> @[Len(@) + 1 - i] ] ]))

\* to_json(result)
to_json(result) == json_dumps(payload(result))

\* f"- {item}" for every item
Bullets(items) == [ i \in 1..Len(items) |-> <<"-", " ">> \o items[i] ]

\* format_routing_output(result)
format_routing_output(result) ==
    Join(<<"\n">>,
         << OUTPUT_LINES.head_directives >> \o Bullets(result.directives)
         \o << << >>, OUTPUT_LINES.head_why >> \o Bullets(<< result.why >>)
         \o << << >>, OUTPUT_LINES.head_required_inputs >> \o Bullets(result.required_inputs)
         \o << << >>, OUTPUT_LINES.head_stop_conditions >> \o Bullets(result.stop_conditions)
         \o (IF result.notes # << >>
             THEN << << >>, OUTPUT_LINES.head_notes >> \o Bullets(result.notes)
             ELSE << >>)
         \o << << >>, OUTPUT_LINES.head_classification,
               OUTPUT_LINES.line_decision_type \o LabelText(result.decision_type),
               OUTPUT_LINES.line_pain_signal \o LabelText(result.pain_signal),
               OUTPUT_LINES.line_time_horizon \o LabelText(result.time_horizon) >>)

\* -------------------------------------------------------------------------
\* directive_loader.py
\* -------------------------------------------------------------------------
\* s.endswith(suffix)
EndsWith(s, suffix) ==
    Len(s) >= Len(suffix) /\ SubSeq(s, Len(s) - Len(suffix) + 1, Len(s)) = suffix

\* s.replace(old, new), for a non-empty old
RECURSIVE Replace(_, _, _)
Replace(s, old, new) ==
    IF Len(s) < Len(old) THEN s
    ELSE IF SubSeq(s, 1, Len(old)) = old
         THEN new \o Replace(SubSeq(s, Len(old) + 1, Len(s)), old, new)
    ELSE << Head(s) >> \o Replace(Tail(s), old, new)

\* ord(c) of the characters of the file names
ORD ==
      "." :> 46 @@ "A" :> 65 @@ "D" :> 68 @@ "E" :> 69 @@ "M" :> 77 @@ "R" :> 82
    @@ "_" :> 95 @@ "a" :> 97 @@ "c" :> 99 @@ "d" :> 100 @@ "e" :> 101 @@ "f" :> 102
    @@ "i" :> 105 @@ "l" :> 108 @@ "m" :> 109 @@ "n" :> 110 @@ "o" :> 111
    @@ "t" :> 116 @@ "v" :> 118 @@ "x" :> 120

\* a < b for two str
RECURSIVE StrLess(_, _)
StrLess(a, b) ==
    IF b = << >> THEN FALSE
    ELSE IF a = << >> THEN TRUE
    ELSE IF Head(a) # Head(b) THEN ORD[Head(a)] < ORD[Head(b)]
    ELSE StrLess(Tail(a), Tail(b))

\* sorted(names)
sorted(names) ==
    [ k \in 1..Cardinality(names) |->
        CHOOSE x \in names : Cardinality({ y \in names : StrLess(y, x) }) = k - 1 ]

MD_SUFFIX == <<".", "m", "d">>

\* list_directive_files(): the sorted .md names of the directory, or FileNotFoundError
\* when there is no directives directory
list_directive_files(dir) ==
    IF ~dir.isdir THEN [ raised |-> "FileNotFoundError" ]
    ELSE [ raised |-> None,
           value |-> sorted({ f \in DOMAIN dir.entries : EndsWith(f, MD_SUFFIX) }) ]

\* variant: an empty file is loaded as a Directive of empty content
load_directive_EmptyAccepted(dir, filename) ==
    IF ~(dir.isdir /\ filename \in DOMAIN dir.entries /\ dir.entries[filename].isfile)
    THEN [ raised |-> "FileNotFoundError" ]
    ELSE [ raised |-> None,
           value |-> [ name |-> Replace(filename, MD_SUFFIX, << >>),
                       filename |-> filename,
                       content |-> Strip(dir.entries[filename].content) ] ]

\* load_directive(filename): the Directive, or the exception raised
load_directive(dir, filename) ==
    IF ~(dir.isdir /\ filename \in DOMAIN dir.entries /\ dir.entries[filename].isfile)
    THEN [ raised |-> "FileNotFoundError" ]
    ELSE LET content == Strip(dir.entries[filename].content)
         IN  IF content = << >> THEN [ raised |-> "ValueError" ]
             ELSE [ raised |-> None,
                    value |-> [ name |-> Replace(filename, MD_SUFFIX, << >>),
                                filename |-> filename,
                                content |-> content ] ]

\* load_all_directives(): the dict of the Directives by name, or the exception of the
\* first file that does not load
load_all_directives(dir) ==
    LET listed == list_directive_files(dir)
    IN  IF listed.raised # None THEN [ raised |-> listed.raised ]
        ELSE LET loaded == [ k \in 1..Len(listed.value) |-> load_directive(dir, listed.value[k]) ]
                 failed == { k \in 1..Len(loaded) : loaded[k].raised # None }
             IN  IF failed # { }
                 THEN [ raised |-> loaded[CHOOSE k \in failed : \A j \in failed : k <= j].raised ]
                 ELSE [ raised |-> None,
                        value |-> [ n \in { loaded[k].value.name : k \in 1..Len(loaded) } |->
                                      loaded[CHOOSE k \in 1..Len(loaded) :
                                                 /\ loaded[k].value.name = n
                                                 /\ \A j \in 1..Len(loaded) :
                                                        loaded[j].value.name = n => j <= k].value ] ]

\* file names of the directories the loader is run on
LOADER_NAMES ==
    { DEFINE_CAC_MODEL_MD, DEFINE_LTV_MODEL_MD,
      <<"R","E","A","D","M","E",".","t","x","t">> }

\* what a name of the directory is: a directory, or a file of some content
LOADER_ENTRIES ==
    { [ isfile |-> FALSE, content |-> << >> ] }
    \cup { [ isfile |-> TRUE, content |-> c ] :
               c \in { << >>, <<" ", "\n">>, <<"#"," ","L","T","V","\n">> } }

\* the states of the directives directory: absent, or holding some of the names
LOADER_DIRS ==
    { [ isdir |-> FALSE, entries |-> << >> ] }
    \cup { [ isdir |-> TRUE, entries |-> e ] :
               e \in UNION { [ S -> LOADER_ENTRIES ] : S \in SUBSET LOADER_NAMES } }

\* -------------------------------------------------------------------------
\* decision_engine.py
\* -------------------------------------------------------------------------
\* normalize(text)
normalize(text) == Strip(Lower(text))

DE_RATIONALE ==
       "diagnose_unit_economics" :> "User intent references profitability or unit economics."
    @@ "define_ltv_model" :> "Pricing/CAC analysis requires LTV definition first."
    @@ "define_cac_model" :> "CAC guardrails must be defined after LTV."
    @@ "diagnose_pricing" :> "User intent references pricing or CAC limits."
    @@ "diagnose_capacity_and_throughput" :> "User intent references production capacity or throughput."
    @@ "diagnose_scalability" :> "Scaling implications must be evaluated."
    @@ "optimize_scaling_strategy" :> "Optimization required to scale safely."
    @@ "optimize_product_mix" :> "User intent references multiple products or prioritization."
    @@ "diagnose_customer_quality" :> "User intent references retention or customer behavior."
    @@ "diagnose_acquisition_quality" :> "Acquisition quality impacts CAC and LTV."

\* directives.append(name) guarded by `if name not in directives`
AppendIfAbsent(directives, name) ==
    IF name \notin Range(directives) THEN Append(directives, name) ELSE directives

\* UNIT ECONOMICS / VIABILITY
DE_UnitEconomics(intent, directives) ==
    IF AnyIn(DE_KW_UNIT_ECONOMICS, intent)
    THEN Append(directives, "diagnose_unit_economics")
    ELSE directives

\* variant: the pricing group also schedules the unit-economics diagnosis, unguarded
DE_Pricing_Reschedule(intent, directives) ==
    IF AnyIn(DE_KW_PRICING, intent)
    THEN Append(Append(Append(Append(directives, "diagnose_unit_economics"),
                              "define_ltv_model"), "define_cac_model"), "diagnose_pricing")
    ELSE directives

\* PRICING / CAC / LTV
DE_Pricing(intent, directives) ==
    IF AnyIn(DE_KW_PRICING, intent)
    THEN Append(AppendIfAbsent(AppendIfAbsent(directives, "define_ltv_model"), "define_cac_model"),
                "diagnose_pricing")
    ELSE directives

\* SCALING / CAPACITY
DE_Scaling(intent, directives) ==
    IF AnyIn(DE_KW_SCALING, intent)
    THEN directives \o << "diagnose_capacity_and_throughput",
                          "diagnose_scalability",
                          "optimize_scaling_strategy" >>
    ELSE directives

\* PRODUCT MIX
DE_ProductMix(intent, directives) ==
    IF AnyIn(DE_KW_PRODUCT_MIX, intent)
    THEN Append(directives, "optimize_product_mix")
    ELSE directives

\* CUSTOMER / ACQUISITION QUALITY
DE_Customer(intent, directives) ==
    IF AnyIn(DE_KW_CUSTOMER, intent)
    THEN directives \o << "diagnose_customer_quality", "diagnose_acquisition_quality" >>
    ELSE directives

\* variant: the empty plan is returned instead of failing
DE_FailFast_Never(directives) == FALSE

\* FAIL FAST: raise ValueError when no directive was selected
DE_FailFast(directives) == directives = << >>

\* decision_engine(user_intent): the RoutingDecision returned, or the exception raised
decision_engine(user_intent) ==
    LET intent == normalize(user_intent)
        directives ==
            DE_Customer(intent,
              DE_ProductMix(intent,
                DE_Scaling(intent,
                  DE_Pricing(intent,
                    DE_UnitEconomics(intent, << >>)))))
    IN  IF DE_FailFast(directives)
        THEN [ raised |-> "ValueError" ]
        ELSE [ raised |-> None,
               user_intent |-> user_intent,
               directives |-> directives,
               rationale |-> [ d \in Range(directives) |-> DE_RATIONALE[d] ] ]

\* -------------------------------------------------------------------------
\* Python float arithmetic
\* -------------------------------------------------------------------------
\* A finite float is the exact fraction n/d in lowest terms with d > 0; float("nan") has
\* d = 0. Every operation with a nan operand gives nan, every comparison with one is False.
Abs(i) == IF i < 0 THEN -i ELSE i

RECURSIVE GCD(_, _)
GCD(a, b) == IF b = 0 THEN a ELSE GCD(b, a % b)

\* the float n/d, d # 0
Frac(n, d) ==
    LET g == GCD(Abs(n), Abs(d))
        s == IF d < 0 THEN -1 ELSE 1
    IN  [ n |-> s * (n \div g), d |-> Abs(d) \div g ]

\* the float of the integer i
F(i) == [ n |-> i, d |-> 1 ]

\* float("nan")
nan == [ n |-> 0, d |-> 0 ]

\* math.isnan(x)
isnan(x) == x.d = 0

\* a + b
FAdd(a, b) ==
    IF isnan(a) \/ isnan(b) THEN nan ELSE Frac(a.n * b.d + b.n * a.d, a.d * b.d)

\* a - b
FSub(a, b) ==
    IF isnan(a) \/ isnan(b) THEN nan ELSE Frac(a.n * b.d - b.n * a.d, a.d * b.d)

\* a * b
FMul(a, b) ==
    IF isnan(a) \/ isnan(b) THEN nan ELSE Frac(a.n * b.n, a.d * b.d)

\* a / b for b # 0 (every division of the source is by a non-zero constant or is guarded)
FDiv(a, b) ==
    IF isnan(a) \/ isnan(b) THEN nan ELSE Frac(a.n * b.d, a.d * b.n)

\* a < b
FLt(a, b) == ~isnan(a) /\ ~isnan(b) /\ a.n * b.d < b.n * a.d

\* a <= b
FLe(a, b) == ~isnan(a) /\ ~isnan(b) /\ a.n * b.d <= b.n * a.d

\* a == b
FEq(a, b) == ~isnan(a) /\ ~isnan(b) /\ a = b

\* max(a, b): a unless b > a
FMax(a, b) == IF FLt(a, b) THEN b ELSE a

\* min(a, b): a unless b < a
FMin(a, b) == IF FLt(b, a) THEN b ELSE a

\* int(x): truncation toward zero
int(x) == F(IF x.n >= 0 THEN x.n \div x.d ELSE -((-x.n) \div x.d))

\* -------------------------------------------------------------------------
\* app.py
\* -------------------------------------------------------------------------
\* safe_div of app.py
safe_div(n, d) == IF FEq(d, F(0)) THEN nan ELSE FDiv(n, d)

clamp01(x) == FMax(F(0), FMin(F(1), x))

WARN_GROSS_PROFIT ==
    "Gross Profit is negative. Pricing/cost structure is not viable as entered."

WARN_LABOR_MINUTES ==
    "Labor minutes is 0 or negative. Enter realistic total labor time per unit."

WARN_EXPECTED_ORDERS ==
    "Expected orders over horizon is 0. LTV will be 0; update repeat assumptions."

WARN_PRICE == "Price must be greater than 0."

WARN_TARGET_CAC == "Target CAC calculation invalid (check LTV target ratio and inputs)."

\* compute(): payment_fees
payment_fees(price, payment_fee_rate, payment_fixed_fee) ==
    FAdd(FMul(price, payment_fee_rate), payment_fixed_fee)

\* compute(): labor_cost
labor_cost(labor_minutes, labor_rate) == FMul(FDiv(labor_minutes, F(60)), labor_rate)

\* compute(): overhead_cost
overhead_cost(labor_minutes, overhead_rate) == FMul(FDiv(labor_minutes, F(60)), overhead_rate)

\* compute(): variable_costs
variable_costs(cogs_materials, packaging, shipping, fees, labor, overhead) ==
    FAdd(FAdd(FAdd(FAdd(FAdd(cogs_materials, packaging), shipping), fees), labor), overhead)

gross_profit_Floored(price, costs) == FMax(F(0), FSub(price, costs))

\* compute(): gross_profit
gross_profit(price, costs) == FSub(price, costs)

\* compute(): expected_gp_after_refunds
expected_gp_after_refunds(gp, refunds_rate) == FMul(gp, FSub(F(1), refunds_rate))

buffered_gp_Additive(gp, refunds_rate, gross_margin_holdback_rate) ==
    FMul(gp, FSub(FSub(F(1), refunds_rate), gross_margin_holdback_rate))

\* compute(): buffered_gp
buffered_gp(gp, refunds_rate, gross_margin_holdback_rate) ==
    FMul(expected_gp_after_refunds(gp, refunds_rate), FSub(F(1), gross_margin_holdback_rate))

\* expected_orders without the floor at 0
expected_orders_Unfloored(repeat_orders_per_year, horizon_months) ==
    FMul(FDiv(repeat_orders_per_year, F(12)), horizon_months)

\* compute(): expected_orders
expected_orders(repeat_orders_per_year, horizon_months) ==
    FMax(F(0), FMul(FDiv(repeat_orders_per_year, F(12)), horizon_months))

ltv_cac_ratio_ZeroWhenUnknown(ltv, cac_assumed) ==
    IF FLt(F(0), cac_assumed) THEN safe_div(ltv, cac_assumed) ELSE F(0)

\* compute(): ltv_cac_ratio
ltv_cac_ratio(ltv, cac_assumed) ==
    IF FLt(F(0), cac_assumed) THEN safe_div(ltv, cac_assumed) ELSE nan

\* the warning w if cond holds
WarnIf(cond, w) == IF cond THEN << w >> ELSE << >>

Diagnostics_FirstOnly(gp, labor_minutes, orders, price, max_cac) ==
    IF FLt(gp, F(0)) THEN << WARN_GROSS_PROFIT >>
    ELSE IF FLe(labor_minutes, F(0)) THEN << WARN_LABOR_MINUTES >>
    ELSE IF FEq(orders, F(0)) THEN << WARN_EXPECTED_ORDERS >>
    ELSE IF FLe(price, F(0)) THEN << WARN_PRICE >>
    ELSE WarnIf(isnan(max_cac) \/ FLt(max_cac, F(0)), WARN_TARGET_CAC)

\* compute(): warnings
Diagnostics(gp, labor_minutes, orders, price, max_cac) ==
    WarnIf(FLt(gp, F(0)), WARN_GROSS_PROFIT)
    \o WarnIf(FLe(labor_minutes, F(0)), WARN_LABOR_MINUTES)
    \o WarnIf(FEq(orders, F(0)), WARN_EXPECTED_ORDERS)
    \o WarnIf(FLe(price, F(0)), WARN_PRICE)
    \o WarnIf(isnan(max_cac) \/ FLt(max_cac, F(0)), WARN_TARGET_CAC)

\* compute(inputs)
compute(inputs) ==
    LET price == inputs.price
        rate == clamp01(inputs.payment_fee_rate)
        labor_minutes == inputs.labor_minutes
        horizon_months == int(inputs.horizon_months)
        holdback == clamp01(inputs.gross_margin_holdback_rate)
        refunds_rate == clamp01(inputs.refunds_rate)
        fees == payment_fees(price, rate, inputs.payment_fixed_fee)
        labor == labor_cost(labor_minutes, inputs.labor_rate)
        overhead == overhead_cost(labor_minutes, inputs.overhead_rate)
        costs == variable_costs(inputs.cogs_materials, inputs.packaging, inputs.shipping,
                                fees, labor, overhead)
        gp == gross_profit(price, costs)
        orders == expected_orders(inputs.repeat_orders_per_year, horizon_months)
        ltv == FMul(buffered_gp(gp, refunds_rate, holdback), orders)
        max_cac == safe_div(ltv, inputs.ltv_to_cac_target)
    IN  [ raised |-> None,
          payment_fees |-> fees,
          labor_cost |-> labor,
          overhead_cost |-> overhead,
          variable_costs |-> costs,
          gross_profit |-> gp,
          contribution_margin |-> safe_div(gp, price),
          expected_gp_after_refunds |-> expected_gp_after_refunds(gp, refunds_rate),
          buffered_gp |-> buffered_gp(gp, refunds_rate, holdback),
          expected_orders |-> orders,
          ltv |-> ltv,
          breakeven_cac |-> ltv,
          max_cac_for_target |-> max_cac,
          cac_assumed |-> inputs.cac_assumed,
          ltv_cac_ratio |-> ltv_cac_ratio(ltv, inputs.cac_assumed),
          warnings |-> Diagnostics(gp, labor_minutes, orders, price, max_cac) ]

\* -------------------------------------------------------------------------
\* execution/scenario_engine.py
\* -------------------------------------------------------------------------
\* clamp_nonnegative(x, name) raises ValueError
clamp_nonnegative_raises(x) == FLt(x, F(0))

\* clamp_01(x, name) raises ValueError
clamp_01_raises(x) == FLt(x, F(0)) \/ FLt(F(1), x)

\* safe_div of scenario_engine.py
safe_div_scenario_engine(n, d) == IF FEq(d, F(0)) THEN F(0) ELSE FDiv(n, d)

\* validate_inputs(i) raises ValueError
validate_inputs_raises(i) ==
    \/ clamp_nonnegative_raises(i.aov)
    \/ clamp_nonnegative_raises(i.cogs)
    \/ clamp_nonnegative_raises(i.packaging)
    \/ clamp_nonnegative_raises(i.shipping_cost)
    \/ clamp_01_raises(i.fee_rate)
    \/ clamp_nonnegative_raises(i.fee_fixed)
    \/ clamp_nonnegative_raises(i.labor_minutes_per_order)
    \/ clamp_nonnegative_raises(i.labor_rate_per_hour)

\* compute_unit_economics(i)
compute_unit_economics(i) ==
    IF validate_inputs_raises(i) THEN [ raised |-> "ValueError" ]
    ELSE LET fees == FAdd(FMul(i.aov, i.fee_rate), i.fee_fixed)
             labor == FMul(FDiv(i.labor_minutes_per_order, F(60)), i.labor_rate_per_hour)
             total == FAdd(FAdd(FAdd(FAdd(i.cogs, i.packaging), i.shipping_cost), fees), labor)
             gp == FSub(i.aov, total)
         IN  [ raised |-> None,
               inputs |-> i,
               payment_fees |-> fees,
               labor_cost |-> labor,
               total_variable_costs |-> total,
               gross_profit |-> gp,
               contribution_margin |-> safe_div_scenario_engine(gp, i.aov) ]

\* compute_ltv_simple(gross_profit_per_order, orders_per_customer)
compute_ltv_simple(gross_profit_per_order, orders_per_customer) ==
    IF clamp_nonnegative_raises(orders_per_customer) THEN [ raised |-> "ValueError" ]
    ELSE IF FLe(gross_profit_per_order, F(0)) THEN [ raised |-> None, value |-> F(0) ]
    ELSE IF FLe(orders_per_customer, F(0)) THEN [ raised |-> None, value |-> F(0) ]
    ELSE [ raised |-> None, value |-> FMul(gross_profit_per_order, orders_per_customer) ]

\* max_cac_for_target_ratio that rejects an LTV of 0 as it rejects a negative one
max_cac_for_target_ratio_RejectsZeroLtv(ltv, target_ratio) ==
    IF FLe(ltv, F(0)) THEN [ raised |-> "ValueError" ]
    ELSE IF FLe(target_ratio, F(0)) THEN [ raised |-> "ValueError" ]
    ELSE [ raised |-> None, value |-> FDiv(ltv, target_ratio) ]

\* max_cac_for_target_ratio(ltv, target_ratio)
max_cac_for_target_ratio(ltv, target_ratio) ==
    IF clamp_nonnegative_raises(ltv) THEN [ raised |-> "ValueError" ]
    ELSE IF FLe(target_ratio, F(0)) THEN [ raised |-> "ValueError" ]
    ELSE IF FLe(ltv, F(0)) THEN [ raised |-> None, value |-> F(0) ]
    ELSE [ raised |-> None, value |-> FDiv(ltv, target_ratio) ]

\* ScenarioInputs(...) built from the fields of a scenario, as pages/1_Agent_Assistant.py does
ScenarioInputs(s) ==
    [ aov |-> s.price,
      cogs |-> s.cogs_materials,
      packaging |-> s.packaging,
      shipping_cost |-> s.shipping,
      fee_rate |-> s.payment_fee_rate,
      fee_fixed |-> s.payment_fixed_fee,
      labor_minutes_per_order |-> s.labor_minutes,
      labor_rate_per_hour |-> s.labor_rate ]

\* -------------------------------------------------------------------------
\* State
\* -------------------------------------------------------------------------
VARIABLES
    pc,             \* position of the running program
    files,          \* names of the regular files present in the directives directory
    dirs,           \* levels above the working directory at which a directives/ folder exists
    args,           \* parsed command line of main()
    question,       \* main(): question
    q_norm,         \* route(): q_norm
    decision_type,  \* route(): decision_type
    raw,            \* ask_one_question(): raw
    pain_signal,    \* route(): pain_signal
    time_horizon,   \* route(): time_horizon
    result,         \* main(): result, the RoutedDecision returned by route()
    exit_code,      \* exit status of the process (None while it runs)
    raised,         \* uncaught exception, if any
    calls,          \* calls made so far, in order
    env,            \* what main() reads: the question file and the line typed at its prompt
    user_intent,    \* argument of decision_engine()
    de_out,         \* outcome of decision_engine(user_intent)
    fn,             \* the function of the compute engine that was called (None before)
    fn_in,          \* its arguments
    fn_out          \* what it returned, or the exception it raised

vars == << pc, files, dirs, args, question, q_norm, decision_type, raw, pain_signal,
           time_horizon, result, exit_code, raised, calls, env, user_intent, de_out,
           fn, fn_in, fn_out >>

\* range(8) of locate_directives_dir
LOCATE_RANGE == 8

NoEnv == [ qfile |-> NoStr, line |-> NoStr ]

NoResult == [ why |-> << >> ]

NoArgs == [ question |-> NoStr, question_file |-> FALSE, interactive |-> FALSE,
            directives_dir |-> FALSE ]

\* question texts: up to MaxWords words of VOCAB separated by one space
Texts ==
    { Join(<<" ">>, ws) : ws \in UNION { [ 1..n -> VOCAB ] : n \in 0..MaxWords } }

\* files of the directives directory the model varies
MODELLED_FILES == { DECISION_ROUTER_MD, DEFINE_LTV_MODEL_MD, DEFINE_CAC_MODEL_MD }

\* directory layouts: directives/ in the working directory, LOCATE_RANGE levels above it,
\* or nowhere
DIR_LAYOUTS == { { }, { 0 }, { LOCATE_RANGE } }

Init ==
    /\ pc = "start"
    /\ files \in SUBSET MODELLED_FILES
    /\ dirs \in DIR_LAYOUTS
    /\ (dirs = { } => files = { })
    /\ args = NoArgs
    /\ question = NoStr
    /\ q_norm = NoStr
    /\ decision_type = None
    /\ raw = NoStr
    /\ pain_signal = None
    /\ time_horizon = None
    /\ result = NoResult
    /\ exit_code = None
    /\ raised = None
    /\ calls = << >>
    /\ env = NoEnv
    /\ user_intent = NoStr
    /\ de_out = [ raised |-> None ]
    /\ fn = None
    /\ fn_in = [ raised |-> None ]
    /\ fn_out = [ raised |-> None ]

\* -------------------------------------------------------------------------
\* main()
\* -------------------------------------------------------------------------
\* number of question sources named on the command line
Sources(a) ==
    (IF a.question # NoStr THEN 1 ELSE 0) + (IF a.question_file THEN 1 ELSE 0)
        + (IF a.interactive THEN 1 ELSE 0)

\* command lines: at most one question source, with or without --directives-dir
ArgCombos(text) ==
    { a \in [ question : { NoStr, text }, question_file : BOOLEAN, interactive : BOOLEAN,
              directives_dir : BOOLEAN ] : Sources(a) <= 1 }

\* what a command line makes main() read: the question file (NoStr: no such file) and
\* the line typed at the prompt (NoStr: end of input)
Envs(a, text) ==
    { [ qfile |-> f, line |-> l ] :
        f \in (IF a.question_file THEN { NoStr, text } ELSE { NoStr }),
        l \in (IF a.interactive THEN { NoStr, text } ELSE { NoStr }) }

\* fatal(msg, code): sys.exit(code)
fatal(code) ==
    /\ pc' = "exited"
    /\ exit_code' = code

\* an exception nobody catches ends the interpreter with status 1
uncaught(exc) ==
    /\ pc' = "exited"
    /\ raised' = exc
    /\ exit_code' = 1

\* main(): "Load question"; the value of `question`, or how loading ended
LoadQuestion(a, e) ==
    IF ~Falsy(a.question) THEN [ end |-> "ok", question |-> a.question ]
    ELSE IF a.question_file
         THEN IF e.qfile = NoStr
              THEN [ end |-> "fatal", question |-> NoStr ]
              ELSE [ end |-> "ok", question |-> Strip(e.qfile) ]
    ELSE IF a.interactive
         THEN IF e.line = NoStr
              THEN [ end |-> "EOFError", question |-> NoStr ]
              ELSE [ end |-> "ok", question |-> Strip(e.line) ]
    ELSE [ end |-> "ok", question |-> NoStr ]

\* variant: only a missing or empty question counts, a whitespace-only one does not
NoQuestion_EmptyOnly(q) == Falsy(q)

\* not question or not question.strip()
NoQuestion(q) == Falsy(q) \/ Falsy(Strip(q))

\* main(), "Load question": parse the command line, read the question, reject a blank one
MainLoadQuestion ==
    /\ pc = "start"
    /\ \E text \in Texts :
       \E a \in ArgCombos(text) :
       \E e \in Envs(a, text) :
          LET l == LoadQuestion(a, e)
          IN  /\ args' = a
              /\ env' = e
              /\ question' = l.question
              /\ IF l.end = "fatal" THEN fatal(4) /\ UNCHANGED raised
                 ELSE IF l.end = "EOFError" THEN uncaught("EOFError")
                 ELSE IF NoQuestion(l.question) THEN fatal(4) /\ UNCHANGED raised
                 ELSE pc' = "locate" /\ UNCHANGED << exit_code, raised >>
    /\ UNCHANGED << files, dirs, q_norm, decision_type, raw, pain_signal, time_horizon,
                    result, calls, user_intent, de_out >>
    /\ UNCHANGED << fn, fn_in, fn_out >>

\* locate_directives_dir(start): TRUE when a directives/ folder is found walking upward
locate_directives_dir(levels) ==
    \E k \in 0..(LOCATE_RANGE - 1) : k \in levels

\* main(), "Locate directives"
MainLocateDirectives ==
    /\ pc = "locate"
    /\ IF args.directives_dir
       THEN IF dirs = { }
            THEN fatal(4)
            ELSE pc' = "router" /\ UNCHANGED exit_code
       ELSE IF locate_directives_dir(dirs)
            THEN pc' = "router" /\ UNCHANGED exit_code
            ELSE fatal(4)
    /\ UNCHANGED << files, dirs, args, question, q_norm, decision_type, raw, pain_signal,
                    time_horizon, result, raised, calls, env, user_intent, de_out >>
    /\ UNCHANGED << fn, fn_in, fn_out >>

\* validate_directives_presence(directives_dir): (missing, present); main() only prints
\* the missing names as a warning and goes on
validate_directives_presence(fs) ==
    [ missing |-> SelectSeq(EXPECTED_DIRECTIVES, LAMBDA name : ~file_exists(fs, name)),
      present |-> SelectSeq(EXPECTED_DIRECTIVES, LAMBDA name : file_exists(fs, name)) ]

\* main(): the router file must exist; missing directives are only warned about
MainCheckRouter ==
    /\ pc = "router"
    /\ IF ~file_exists(files, DEFAULT_ROUTER_FILENAME)
       THEN fatal(3) /\ UNCHANGED calls
       ELSE /\ pc' = "route"
            /\ calls' = calls \o << "validate_directives_presence", "route" >>
            /\ UNCHANGED exit_code
    /\ UNCHANGED << files, dirs, args, question, q_norm, decision_type, raw, pain_signal,
                    time_horizon, result, raised, env, user_intent, de_out >>
    /\ UNCHANGED << fn, fn_in, fn_out >>

\* -------------------------------------------------------------------------
\* route()
\* -------------------------------------------------------------------------
\* route(): normalize the question and run the three classifiers
RouteClassify ==
    /\ pc = "route"
    /\ q_norm' = normalize_whitespace(question)
    /\ decision_type' = classify_decision_type(q_norm')
    /\ pain_signal' = classify_pain_signal(q_norm')
    /\ time_horizon' = classify_time_horizon(q_norm')
    /\ calls' = calls \o << "classify_decision_type", "classify_pain_signal",
                            "classify_time_horizon" >>
    /\ pc' = IF needs_one_clarifying_question(decision_type') THEN "ask" ELSE "gate"
    /\ UNCHANGED << files, dirs, args, question, raw, result, exit_code, raised, env,
                    user_intent, de_out >>
    /\ UNCHANGED << fn, fn_in, fn_out >>

\* route(): decision_type = ask_one_question(); input() raises EOFError at end of input
RouteAsk ==
    /\ pc = "ask"
    /\ calls' = Append(calls, "ask_one_question")
    /\ \/ \E line \in ANSWERS :
            /\ raw' = Strip(line)
            /\ decision_type' = ask_one_question(line)
            /\ pc' = "gate"
            /\ UNCHANGED << exit_code, raised >>
       \/ /\ uncaught("EOFError")
          /\ UNCHANGED << decision_type, raw >>
    /\ UNCHANGED << files, dirs, args, question, q_norm, pain_signal, time_horizon,
                    result, env, user_intent, de_out >>
    /\ UNCHANGED << fn, fn_in, fn_out >>

\* route(): the definitions gate fails and the blocked decision is returned
RouteBlocked ==
    /\ pc = "gate"
    /\ LET gate == enforce_definitions_gate(files)
       IN  /\ ~gate.ok
           /\ result' = BlockedDecision(decision_type, pain_signal, time_horizon, gate.missing)
    /\ calls' = Append(calls, "enforce_definitions_gate")
    /\ pc' = "returned"
    /\ UNCHANGED << files, dirs, args, question, q_norm, decision_type, raw, pain_signal,
                    time_horizon, exit_code, raised, env, user_intent, de_out >>
    /\ UNCHANGED << fn, fn_in, fn_out >>

\* route(): the definitions gate passes and the scenario is routed
RouteScenario ==
    /\ pc = "gate"
    /\ enforce_definitions_gate(files).ok
    /\ result' = RoutedDecisionOf(decision_type, pain_signal, time_horizon)
    /\ calls' = Append(calls, "enforce_definitions_gate")
    /\ pc' = "returned"
    /\ UNCHANGED << files, dirs, args, question, q_norm, decision_type, raw, pain_signal,
                    time_horizon, exit_code, raised, env, user_intent, de_out >>
    /\ UNCHANGED << fn, fn_in, fn_out >>

\* main(): print the decision and exit with 2 on the hard stop, 0 otherwise
MainExit ==
    /\ pc = "returned"
    /\ pc' = "exited"
    /\ exit_code' = IF IsHardStop(result) THEN 2 ELSE 0
    /\ UNCHANGED << files, dirs, args, question, q_norm, decision_type, raw, pain_signal,
                    time_horizon, result, raised, calls, env, user_intent, de_out >>
    /\ UNCHANGED << fn, fn_in, fn_out >>

\* -------------------------------------------------------------------------
\* decision_engine()
\* -------------------------------------------------------------------------
DecisionEngineCall ==
    /\ pc = "start"
    /\ \E text \in Texts :
          /\ user_intent' = text
          /\ de_out' = decision_engine(text)
    /\ pc' = "de_done"
    /\ UNCHANGED << files, dirs, args, question, q_norm, decision_type, raw, pain_signal,
                    time_horizon, result, exit_code, raised, calls, env >>
    /\ UNCHANGED << fn, fn_in, fn_out >>

\* -------------------------------------------------------------------------
\* pages/1_Agent_Assistant.py
\* -------------------------------------------------------------------------
\* the messages the page stops with
PAGE_STOPS ==
    [ not_submitted |-> "Enter a question and click Ask the Agent to continue.",
      empty |-> "Question is empty. Enter a question and try again.",
      import_failed |-> "Routing engine import failed.",
      routing_failed |-> "Routing failed." ]

\* one run of the page script up to its routing phase: where it stops, and whether it
\* called the routing engine. The engine it imports is route(), which it calls with the
\* question alone, so the call raises TypeError and the page stops there.
AssistantPage(text, submit_intent, routing_available) ==
    IF ~submit_intent THEN [ stopped |-> PAGE_STOPS.not_submitted, called |-> FALSE ]
    ELSE IF Falsy(Strip(text)) THEN [ stopped |-> PAGE_STOPS.empty, called |-> FALSE ]
    ELSE IF ~routing_available THEN [ stopped |-> PAGE_STOPS.import_failed, called |-> FALSE ]
    ELSE [ stopped |-> PAGE_STOPS.routing_failed, called |-> TRUE ]

AssistantPageRun ==
    /\ pc = "start"
    /\ \E text \in Texts, submit_intent \in BOOLEAN, routing_available \in BOOLEAN :
          LET page == AssistantPage(text, submit_intent, routing_available)
          IN  /\ user_intent' = text
              /\ de_out' = [ raised |-> IF page.called THEN "TypeError" ELSE None,
                             submit_intent |-> submit_intent,
                             stopped |-> page.stopped ]
              /\ calls' = IF page.called THEN Append(calls, "decision_engine") ELSE calls
    /\ pc' = "page_stopped"
    /\ UNCHANGED << files, dirs, args, question, q_norm, decision_type, raw, pain_signal,
                    time_horizon, result, exit_code, raised, env >>
    /\ UNCHANGED << fn, fn_in, fn_out >>

Next ==
    \/ MainLoadQuestion
    \/ MainLocateDirectives
    \/ MainCheckRouter
    \/ RouteClassify
    \/ RouteAsk
    \/ RouteBlocked
    \/ RouteScenario
    \/ MainExit
    \/ DecisionEngineCall
    \/ AssistantPageRun

Spec == Init /\ [][Next]_vars

\* -------------------------------------------------------------------------
\* The compute engine: compute() of app.py and the functions of scenario_engine.py
\* -------------------------------------------------------------------------
routerVars == << pc, files, dirs, args, question, q_norm, decision_type, raw, pain_signal,
                 time_horizon, result, exit_code, raised, calls, env, user_intent, de_out >>

\* keys of the inputs dict of app.py, in the order of the dict literal
INPUT_FIELDS ==
    << "price", "cogs_materials", "packaging", "shipping", "payment_fee_rate",
       "payment_fixed_fee", "labor_minutes", "labor_rate", "overhead_rate",
       "horizon_months", "repeat_orders_per_year", "refunds_rate",
       "gross_margin_holdback_rate", "ltv_to_cac_target", "cac_assumed" >>

\* a viable scenario: every cost component is positive, gross profit is 3, LTV is 4.86
BASE_INPUTS ==
    [ price |-> F(10),
      cogs_materials |-> F(1),
      packaging |-> F(1),
      shipping |-> F(1),
      payment_fee_rate |-> Frac(1, 10),
      payment_fixed_fee |-> F(1),
      labor_minutes |-> F(30),
      labor_rate |-> F(2),
      overhead_rate |-> F(2),
      horizon_months |-> F(12),
      repeat_orders_per_year |-> F(2),
      refunds_rate |-> Frac(1, 10),
      gross_margin_holdback_rate |-> Frac(1, 10),
      ltv_to_cac_target |-> F(2),
      cac_assumed |-> F(2) ]

\* the other values each field takes: below its range, at an edge of it, above it
DEVIATIONS ==
    [ price |-> { F(-1), F(0), F(5) },
      cogs_materials |-> { F(-1), F(20) },
      packaging |-> { F(-1), F(0) },
      shipping |-> { F(-1), F(0) },
      payment_fee_rate |-> { Frac(-1, 2), Frac(3, 2) },
      payment_fixed_fee |-> { F(-1), F(0) },
      labor_minutes |-> { F(-30), F(0) },
      labor_rate |-> { F(-1), F(0) },
      overhead_rate |-> { F(-1), F(0) },
      horizon_months |-> { F(-12), F(0), Frac(13, 2) },
      repeat_orders_per_year |-> { F(-1), F(0) },
      refunds_rate |-> { F(1), Frac(3, 2) },
      gross_margin_holdback_rate |-> { Frac(-1, 2), F(1) },
      ltv_to_cac_target |-> { F(-2), F(0) },
      cac_assumed |-> { F(-1), F(0) } ]

\* the pairs << inputs, k >> where inputs differs from BASE_INPUTS in exactly k of the first
\* i fields, k <= MaxDeviations
RECURSIVE Deviated(_)
Deviated(i) ==
    IF i = 0 THEN { << BASE_INPUTS, 0 >> }
    ELSE LET prev == Deviated(i - 1)
             f == INPUT_FIELDS[i]
         IN  prev \cup { << [ t[1] EXCEPT ![f] = v ], t[2] + 1 >> :
                             t \in { u \in prev : u[2] < MaxDeviations },
                             v \in DEVIATIONS[f] }

\* inputs dicts: up to MaxDeviations fields away from BASE_INPUTS
SCENARIOS == { t[1] : t \in Deviated(Len(INPUT_FIELDS)) }

\* the fields of a scenario that make its unit economics
UNIT_ECONOMICS_FIELDS ==
    { "price", "cogs_materials", "packaging", "shipping", "payment_fee_rate",
      "payment_fixed_fee", "labor_minutes", "labor_rate", "overhead_rate" }

\* the scenarios whose other fields are those of BASE_INPUTS
UNIT_ECONOMICS_SCENARIOS ==
    { s \in SCENARIOS :
        \A f \in Range(INPUT_FIELDS) \ UNIT_ECONOMICS_FIELDS : s[f] = BASE_INPUTS[f] }

\* arguments given directly to compute_ltv_simple and max_cac_for_target_ratio
AMOUNTS ==
    { BASE_INPUTS[f] : f \in Range(INPUT_FIELDS) }
    \cup UNION { DEVIATIONS[f] : f \in Range(INPUT_FIELDS) }

ComputeInit ==
    /\ Init
    /\ files = { }
    /\ dirs = { }

\* compute(inputs), as app.py calls it on a run
ComputeCall ==
    /\ fn = None
    /\ \E s \in SCENARIOS :
          /\ fn_in' = s
          /\ fn_out' = compute(s)
    /\ fn' = "compute"
    /\ UNCHANGED routerVars

\* compute_unit_economics(ScenarioInputs(...))
ComputeUnitEconomicsCall ==
    /\ fn = None
    /\ \E s \in UNIT_ECONOMICS_SCENARIOS :
          /\ fn_in' = s
          /\ fn_out' = compute_unit_economics(ScenarioInputs(s))
    /\ fn' = "compute_unit_economics"
    /\ UNCHANGED routerVars

\* compute_ltv_simple(gross_profit_per_order, orders_per_customer)
ComputeLtvSimpleCall ==
    /\ fn = None
    /\ \E gp \in AMOUNTS, orders \in AMOUNTS :
          /\ fn_in' = [ gross_profit_per_order |-> gp, orders_per_customer |-> orders ]
          /\ fn_out' = compute_ltv_simple(gp, orders)
    /\ fn' = "compute_ltv_simple"
    /\ UNCHANGED routerVars

\* max_cac_for_target_ratio(ltv, target_ratio)
MaxCacForTargetRatioCall ==
    /\ fn = None
    /\ \E ltv \in AMOUNTS, target_ratio \in AMOUNTS :
          /\ fn_in' = [ ltv |-> ltv, target_ratio |-> target_ratio ]
          /\ fn_out' = max_cac_for_target_ratio(ltv, target_ratio)
    /\ fn' = "max_cac_for_target_ratio"
    /\ UNCHANGED routerVars

ComputeNext ==
    \/ ComputeCall
    \/ ComputeUnitEconomicsCall
    \/ ComputeLtvSimpleCall
    \/ MaxCacForTargetRatioCall

ComputeSpec == ComputeInit /\ [][ComputeNext]_vars

\* -------------------------------------------------------------------------
\* Repeated runs of the compute engine
\* -------------------------------------------------------------------------
\* the number of runs of one session
MaxRuns == 3

\* the inputs of the repeated runs: BASE_INPUTS with the price or the labor time replaced
RERUN_SCENARIOS ==
    { BASE_INPUTS }
    \cup { [ BASE_INPUTS EXCEPT ![f] = v ] :
               f \in { "price" }, v \in DEVIATIONS.price }
    \cup { [ BASE_INPUTS EXCEPT ![f] = v ] :
               f \in { "labor_minutes" }, v \in DEVIATIONS.labor_minutes }

\* the variables a run of the compute engine leaves alone
sessionVars == << pc, files, dirs, args, question, q_norm, decision_type, raw, pain_signal,
                  time_horizon, result, exit_code, raised, env, user_intent, de_out >>

\* a run whose result is that of the inputs of the run before it
RerunCompute_Remembering ==
    /\ Len(calls) < MaxRuns
    /\ \E s \in RERUN_SCENARIOS :
          LET used == IF calls = << >> THEN s ELSE calls[Len(calls)].inputs
          IN  /\ fn_in' = s
              /\ fn_out' = compute(used)
              /\ calls' = Append(calls, [ fn |-> "compute", inputs |-> s,
                                          inputs_after |-> s, out |-> compute(used) ])
    /\ fn' = "compute"
    /\ UNCHANGED sessionVars

\* a run of app.py with the Run button pressed: compute(inputs) is called on the inputs
\* dict, which it only reads; the call is logged with the dict as it was before and as it
\* is after the call
RerunCompute ==
    /\ Len(calls) < MaxRuns
    /\ \E s \in RERUN_SCENARIOS :
          /\ fn_in' = s
          /\ fn_out' = compute(s)
          /\ calls' = Append(calls, [ fn |-> "compute", inputs |-> s,
                                      inputs_after |-> s, out |-> compute(s) ])
    /\ fn' = "compute"
    /\ UNCHANGED sessionVars

\* a run of pages/1_Agent_Assistant.py that reaches compute_unit_economics(): the frozen
\* ScenarioInputs is only read and the result holds a copy of its fields
RerunUnitEconomics ==
    /\ Len(calls) < MaxRuns
    /\ \E s \in RERUN_SCENARIOS :
          /\ fn_in' = s
          /\ fn_out' = compute_unit_economics(ScenarioInputs(s))
          /\ calls' = Append(calls, [ fn |-> "compute_unit_economics",
                                      inputs |-> ScenarioInputs(s),
                                      inputs_after |-> ScenarioInputs(s),
                                      out |-> compute_unit_economics(ScenarioInputs(s)) ])
    /\ fn' = "compute_unit_economics"
    /\ UNCHANGED sessionVars

RerunNext ==
    \/ RerunCompute
    \/ RerunUnitEconomics

RerunSpec == ComputeInit /\ [][RerunNext]_vars

\* -------------------------------------------------------------------------
\* Calls of the output functions, the classifiers and the directive loader
\* -------------------------------------------------------------------------
\* the decisions route() can return: a routed one for every classification, a blocked one
\* for every classification and every set of missing definition files
DECISIONS ==
    { RoutedDecisionOf(d, p, h) :
          d \in Range(DECISION_TYPES), p \in Range(PAIN_SIGNALS_ORDER),
          h \in Range(TIME_HORIZONS) }
    \cup { BlockedDecision(d, p, h, enforce_definitions_gate(fs).missing) :
               d \in Range(DECISION_TYPES), p \in Range(PAIN_SIGNALS_ORDER),
               h \in Range(TIME_HORIZONS),
               fs \in (SUBSET Range(REQUIRED_DEFINITION_FILES))
                          \ { Range(REQUIRED_DEFINITION_FILES) } }

\* to_json(result), as main() calls it with --json
ToJsonCall ==
    /\ fn = None
    /\ \E r \in DECISIONS :
          /\ fn_in' = r
          /\ fn_out' = [ raised |-> None, value |-> to_json(r) ]
    /\ fn' = "to_json"
    /\ UNCHANGED routerVars

\* format_routing_output(result), as main() calls it without --json
FormatRoutingOutputCall ==
    /\ fn = None
    /\ \E r \in DECISIONS :
          /\ fn_in' = r
          /\ fn_out' = [ raised |-> None, value |-> format_routing_output(r) ]
    /\ fn' = "format_routing_output"
    /\ UNCHANGED routerVars

\* load_directive(filename)
LoadDirectiveCall ==
    /\ fn = None
    /\ \E dir \in LOADER_DIRS, filename \in LOADER_NAMES :
          /\ fn_in' = [ dir |-> dir, filename |-> filename ]
          /\ fn_out' = load_directive(dir, filename)
    /\ fn' = "load_directive"
    /\ UNCHANGED routerVars

\* load_all_directives()
LoadAllDirectivesCall ==
    /\ fn = None
    /\ \E dir \in LOADER_DIRS :
          /\ fn_in' = [ dir |-> dir ]
          /\ fn_out' = load_all_directives(dir)
    /\ fn' = "load_all_directives"
    /\ UNCHANGED routerVars

\* words and phrases of the questions given to the classifiers alone
CLASSIFY_VOCAB ==
    { <<"h","e","l","l","o">>,
      <<"R","e","f","u","n","d"," ","c","o","m","p","l","a","i","n","t">>,
      <<"g","r","o","s","s"," ","m","a","r","g","i","n">>,
      <<"r","i","s","k","y">>,
      <<"U","R","G","E","N","T">>,
      <<"n","e","x","t"," ","w","e","e","k">>,
      <<"Q","3"," ","t","h","i","s"," ","y","e","a","r">>,
      <<"k","n","o","w">> }

\* the questions given to the classifiers: up to MaxWords entries of CLASSIFY_VOCAB
\* separated by one space
CLASSIFY_TEXTS ==
    { Join(<<" ">>, ws) : ws \in UNION { [ 1..n -> CLASSIFY_VOCAB ] : n \in 0..MaxWords } }

\* classify_pain_signal(question)
ClassifyPainSignalCall ==
    /\ fn = None
    /\ \E text \in CLASSIFY_TEXTS :
          /\ fn_in' = [ question |-> text ]
          /\ fn_out' = [ raised |-> None, value |-> classify_pain_signal(text) ]
    /\ fn' = "classify_pain_signal"
    /\ UNCHANGED routerVars

\* classify_time_horizon(question)
ClassifyTimeHorizonCall ==
    /\ fn = None
    /\ \E text \in CLASSIFY_TEXTS :
          /\ fn_in' = [ question |-> text ]
          /\ fn_out' = [ raised |-> None, value |-> classify_time_horizon(text) ]
    /\ fn' = "classify_time_horizon"
    /\ UNCHANGED routerVars

CallNext ==
    \/ ToJsonCall
    \/ FormatRoutingOutputCall
    \/ LoadDirectiveCall
    \/ LoadAllDirectivesCall
    \/ ClassifyPainSignalCall
    \/ ClassifyTimeHorizonCall

CallSpec == ComputeInit /\ [][CallNext]_vars

\* -------------------------------------------------------------------------
\* Properties
\* -------------------------------------------------------------------------
\* both definition files are present in the directives directory
DefinitionsPresent == { DEFINE_LTV_MODEL_MD, DEFINE_CAC_MODEL_MD } \subseteq files

\* route() has been entered
RouteCalled == "route" \in Range(calls)

\* route() has returned a RoutedDecision
RouteReturned == result # NoResult

\* route() has ended, by returning or by raising
RouteEnded == RouteReturned \/ (RouteCalled /\ raised # None)

CLASSIFY_CALLS == { "classify_decision_type", "classify_pain_signal", "classify_time_horizon" }

\* positions of the calls of the given names in the call log
CallsOf(names) == { i \in 1..Len(calls) : calls[i] \in names }

\* C1: when a required definition file is missing, no classify_* call and no
\* ask_one_question call is made before the definitions gate has been checked.
C1_GateBeforeClassification ==
    ~DefinitionsPresent =>
        \A i \in CallsOf(CLASSIFY_CALLS \cup { "ask_one_question" }) :
            \E j \in CallsOf({ "enforce_definitions_gate" }) : j < i

\* C2: when a definition file is missing, route() ends by returning (not raising) a
\* decision whose directive list is exactly [define_ltv_model.md, define_cac_model.md].
C2_BlockedDecisionReturned ==
    (RouteEnded /\ ~DefinitionsPresent) =>
        /\ raised = None
        /\ RouteReturned
        /\ result.directives = << DEFINE_LTV_MODEL_MD, DEFINE_CAC_MODEL_MD >>

\* the routing fields a playbook determines
SameRouting(r1, r2) ==
    /\ r1.directives = r2.directives
    /\ r1.why = r2.why
    /\ r1.required_inputs = r2.required_inputs
    /\ r1.stop_conditions = r2.stop_conditions

\* the recognized pain-signal labels other than the default
NON_DEFAULT_PAIN_SIGNALS == Range(PAIN_SIGNALS_ORDER) \ { "Not sure what to do next" }

\* C3: on a gate-passing route with a recognized non-default pain signal, the directives,
\* rationale, required inputs and stop conditions are the same for all eight decision
\* types (for the pain signal of the call, and for each of the five such labels); with
\* the default pain signal they depend on the decision type.
C3_PainSignalPriority ==
    (pc = "returned" /\ DefinitionsPresent) =>
        /\ IF pain_signal \in NON_DEFAULT_PAIN_SIGNALS
           THEN \A dt \in Range(DECISION_TYPES) :
                    SameRouting(result, RoutedDecisionOf(dt, pain_signal, time_horizon))
           ELSE \E dt \in Range(DECISION_TYPES) :
                    ~SameRouting(result, RoutedDecisionOf(dt, pain_signal, time_horizon))
        /\ \A pain \in NON_DEFAULT_PAIN_SIGNALS : \A dt \in Range(DECISION_TYPES) :
               SameRouting(RoutedDecisionOf(dt, pain, time_horizon),
                           RoutedDecisionOf(decision_type, pain, time_horizon))

C3_Witness ==
    /\ pc = "returned"
    /\ DefinitionsPresent
    /\ pain_signal = "Growth feels risky"
    /\ decision_type = "Pricing"

\* every keyword of the three classification tables
ALL_KEYWORDS ==
    UNION { Range(KEYWORDS_DECISION_TYPE[k]) : k \in DOMAIN KEYWORDS_DECISION_TYPE }
        \cup UNION { Range(PAIN_SIGNALS[k]) : k \in DOMAIN PAIN_SIGNALS }
        \cup UNION { Range(KEYWORDS_TIME_HORIZON[k]) : k \in DOMAIN KEYWORDS_TIME_HORIZON }

REFUND == <<"r","e","f","u","n","d">>

\* the only keyword occurring in the lower-cased text is "refund"
OnlyKeywordRefund(q) ==
    LET lq == Lower(q)
    IN  { kw \in ALL_KEYWORDS : Contains(lq, kw) } = { REFUND }

\* C4: with both definition files present, a question whose only keyword is "refund" gets
\* pain signal "Customers are difficult" and the directives diagnose_customer_quality.md,
\* optimize_product_mix.md, diagnose_pricing.md in that order.
C4_RefundRouting ==
    (pc = "returned" /\ DefinitionsPresent /\ OnlyKeywordRefund(question)) =>
        /\ result.pain_signal = "Customers are difficult"
        /\ result.directives = << DIAGNOSE_CUSTOMER_QUALITY_MD,
                                  OPTIMIZE_PRODUCT_MIX_MD,
                                  DIAGNOSE_PRICING_MD >>

C4_Witness ==
    /\ pc = "returned"
    /\ DefinitionsPresent
    /\ OnlyKeywordRefund(question)
    /\ Len(q_norm) > Len(REFUND)

\* number of keywords of a category occurring in the lower-cased text
KeywordHits(category, q) ==
    LET lq == Lower(q)
    IN  Cardinality({ kw \in Range(KEYWORDS_DECISION_TYPE[category]) : Contains(lq, kw) })

\* rank of a category in the tie-break order of C5 (1 is the strongest)
TieBreakRank(category) ==
    CHOOSE i \in 1..8 :
        << "Financial Viability", "Capacity / Operations", "Customer Quality", "Pricing",
           "Product / Offer", "Acquisition", "Scaling / Growth", "Strategic Direction" >>[i]
            = category

\* the question was classified by its keywords (no clarifying question was needed)
ClassifiedByKeywords == pc = "gate" /\ "ask_one_question" \notin Range(calls)

\* C5: the decision type computed from the keywords has the highest hit count, and among
\* the categories with that count it is the first in the tie-break order.
C5_HighestScoreThenPriority ==
    ClassifiedByKeywords =>
        /\ decision_type \in Range(DECISION_TYPES)
        /\ KeywordHits(decision_type, q_norm) > 0
        /\ \A other \in Range(DECISION_TYPES) :
               /\ KeywordHits(other, q_norm) <= KeywordHits(decision_type, q_norm)
               /\ KeywordHits(other, q_norm) = KeywordHits(decision_type, q_norm)
                      => TieBreakRank(decision_type) <= TieBreakRank(other)

\* a tie between Pricing and Financial Viability, resolved against declaration order
C5_Witness ==
    /\ ClassifiedByKeywords
    /\ decision_type = "Financial Viability"
    /\ KeywordHits("Pricing", q_norm) = KeywordHits("Financial Viability", q_norm)

\* every decision-type category scores 0 on the normalized question
Unclassified ==
    LET lq == Lower(q_norm)
    IN  \A k \in Range(DECISION_TYPES) :
            \A kw \in Range(KEYWORDS_DECISION_TYPE[k]) : ~Contains(lq, kw)

AskCount == Cardinality(CallsOf({ "ask_one_question" }))

\* C6: in one route() call the clarifying question is asked once when every category
\* scores 0 and not at all otherwise, and never more than once.
C6_ExactlyOneQuestion ==
    /\ AskCount <= 1
    /\ RouteEnded => AskCount = (IF Unclassified THEN 1 ELSE 0)

C6_Witness ==
    /\ pc = "returned"
    /\ Unclassified
    /\ AskCount = 1

\* C7: when the question is unclassifiable, the decision type of the returned decision is
\* the menu entry the user's answer selected; an answer outside 1-8 selects nothing.
C7_NeverGuesses ==
    (RouteReturned /\ AskCount > 0) =>
        /\ raw \in DOMAIN ASK_MAPPING
        /\ result.decision_type = ASK_MAPPING[raw]

\* C8: a gate-passing route returns at least one directive, and decision_engine() returns
\* at least one directive or raises ValueError.
C8_DirectivesNonEmpty ==
    /\ (RouteReturned /\ DefinitionsPresent) => Len(result.directives) >= 1
    /\ pc = "de_done" => (de_out.raised = "ValueError" \/ Len(de_out.directives) >= 1)

C8_Witness ==
    /\ pc = "de_done"
    /\ de_out.raised = None
    /\ Len(de_out.directives) = 1

NoDuplicates(s) == \A i, j \in 1..Len(s) : s[i] = s[j] => i = j

\* C9: no directive name occurs twice in the directive list of a decision returned by
\* route() (blocked or routed) or by decision_engine().
C9_NoDuplicateDirectives ==
    /\ RouteReturned => NoDuplicates(result.directives)
    /\ (pc = "de_done" /\ de_out.raised = None) => NoDuplicates(de_out.directives)

\* decision_engine() matched the unit-economics group and the pricing group
C9_Witness ==
    /\ pc = "de_done"
    /\ de_out.raised = None
    /\ { "diagnose_unit_economics", "diagnose_pricing" } \subseteq Range(de_out.directives)

\* the process has ended with this exit status
Exited(code) == pc = "exited" /\ exit_code = code

\* main() found no question: nothing given, or a blank text
NoQuestionGiven == raised = None /\ NoQuestion(question)

\* main() was given a question file that does not exist
QuestionFileNotFound == Falsy(args.question) /\ args.question_file /\ env.qfile = NoStr

\* main() has a question but finds no directives directory
DirectivesDirNotFound ==
    /\ ~NoQuestionGiven
    /\ ~QuestionFileNotFound
    /\ raised = None
    /\ IF args.directives_dir THEN dirs = { } ELSE \A k \in 0..7 : k \notin dirs

ComputeReturned == fn = "compute" /\ fn_out.raised = None

\* compute_unit_economics() was called (it returned or raised)
UnitEconomicsCalled == fn = "compute_unit_economics"

\* the keys of the record compute() returns
RESULT_KEYS ==
    { "raised", "payment_fees", "labor_cost", "overhead_cost", "variable_costs",
      "gross_profit", "contribution_margin", "expected_gp_after_refunds", "buffered_gp",
      "expected_orders", "ltv", "breakeven_cac", "max_cac_for_target", "cac_assumed",
      "ltv_cac_ratio", "warnings" }

\* the priority of the warnings: price validity, labor-time validity, gross-profit
\* viability, expected-orders viability, target-CAC validity
WARNING_PRIORITY ==
    << WARN_PRICE, WARN_LABOR_MINUTES, WARN_GROSS_PROFIT, WARN_EXPECTED_ORDERS,
       WARN_TARGET_CAC >>

Rank(w) == CHOOSE i \in 1..Len(WARNING_PRIORITY) : WARNING_PRIORITY[i] = w

\* the five diagnostic conditions, read off the inputs and the returned figures
PriceInvalid == FLe(fn_in.price, F(0))

LaborInvalid == FLe(fn_in.labor_minutes, F(0))

GrossProfitNegative == FLt(fn_out.gross_profit, F(0))

NoExpectedOrders == FEq(fn_out.expected_orders, F(0))

TargetCacInvalid ==
    isnan(fn_out.max_cac_for_target) \/ FLt(fn_out.max_cac_for_target, F(0))

\* the number of times w occurs in the returned warnings
Occurrences(w) ==
    Cardinality({ i \in 1..Len(fn_out.warnings) : fn_out.warnings[i] = w })

\* C11: the warnings list returned by compute() is ordered by the fixed priority price
\* validity, labor-time validity, gross-profit viability, expected-orders viability,
\* target-CAC validity: a warning of an earlier condition comes before a warning of a later
\* one.
C11_WarningsInPriorityOrder ==
    ComputeReturned =>
        \A i, j \in 1..Len(fn_out.warnings) :
            i < j => Rank(fn_out.warnings[i]) < Rank(fn_out.warnings[j])

\* C12: in compute() each of the five diagnostic conditions contributes its own warning,
\* once, exactly when it holds, whatever the other conditions are, and compute() always
\* returns the full result record.
C12_EveryConditionWarns ==
    fn = "compute" =>
        /\ fn_out.raised = None
        /\ DOMAIN fn_out = RESULT_KEYS
        /\ Occurrences(WARN_PRICE) = (IF PriceInvalid THEN 1 ELSE 0)
        /\ Occurrences(WARN_LABOR_MINUTES) = (IF LaborInvalid THEN 1 ELSE 0)
        /\ Occurrences(WARN_GROSS_PROFIT) = (IF GrossProfitNegative THEN 1 ELSE 0)
        /\ Occurrences(WARN_EXPECTED_ORDERS) = (IF NoExpectedOrders THEN 1 ELSE 0)
        /\ Occurrences(WARN_TARGET_CAC) = (IF TargetCacInvalid THEN 1 ELSE 0)
        /\ Range(fn_out.warnings) \subseteq Range(WARNING_PRIORITY)

\* C12 witness: compute() returned with all five conditions holding and five warnings.
C12_Witness ==
    /\ ComputeReturned
    /\ PriceInvalid /\ LaborInvalid /\ GrossProfitNegative /\ NoExpectedOrders
    /\ TargetCacInvalid
    /\ Len(fn_out.warnings) = 5

\* compute_unit_economics() returned its result record
UnitEconomicsReturned == UnitEconomicsCalled /\ fn_out.raised = None

\* one of the two functions that compute the unit economics of a scenario was called
UnitEconomicsEntry == fn \in { "compute", "compute_unit_economics" }

\* the monetary and labor fields of a scenario
MONEY_FIELDS ==
    { "price", "cogs_materials", "packaging", "shipping", "payment_fixed_fee",
      "labor_minutes", "labor_rate", "overhead_rate", "cac_assumed" }

\* the fields of a scenario that are fractions
RATE_FIELDS == { "payment_fee_rate", "refunds_rate", "gross_margin_holdback_rate" }

\* the fields of a scenario that must be positive
POSITIVE_FIELDS == { "ltv_to_cac_target", "horizon_months" }

\* malformed scenario input: a negative monetary or labor field, a rate outside [0,1], or a
\* non-positive target ratio or horizon
Malformed(s) ==
    \/ \E f \in MONEY_FIELDS : FLt(s[f], F(0))
    \/ \E f \in RATE_FIELDS : FLt(s[f], F(0)) \/ FLt(F(1), s[f])
    \/ \E f \in POSITIVE_FIELDS : FLe(s[f], F(0))

\* the total variable cost of a scenario as the sum of its six components
SixComponentCost(s) ==
    LET fees == FAdd(FMul(s.price, s.payment_fee_rate), s.payment_fixed_fee)
        labor == FMul(FDiv(s.labor_minutes, F(60)), s.labor_rate)
        overhead == FMul(FDiv(s.labor_minutes, F(60)), s.overhead_rate)
    IN  FAdd(s.cogs_materials,
             FAdd(s.packaging, FAdd(s.shipping, FAdd(fees, FAdd(labor, overhead)))))

\* the total variable cost an entry point returned
ReturnedCost ==
    IF fn = "compute" THEN fn_out.variable_costs ELSE fn_out.total_variable_costs

\* C13: when price (AOV) is 0 and the input is otherwise well-formed, compute() and
\* compute_unit_economics() both return contribution_margin as the "undefined" sentinel
\* (nan): they do not raise and the value is not 0.
C13_ZeroPriceMarginUndefined ==
    (UnitEconomicsEntry /\ FEq(fn_in.price, F(0)) /\ ~Malformed(fn_in)) =>
        /\ fn_out.raised = None
        /\ isnan(fn_out.contribution_margin)

\* C14: when the target LTV:CAC ratio passed by the caller is 0, the max CAC for the
\* target is the "undefined" sentinel and nothing is raised, in compute() and in
\* max_cac_for_target_ratio() (called with an LTV that is not negative).
C14_ZeroTargetUndefined ==
    /\ (ComputeReturned /\ FEq(fn_in.ltv_to_cac_target, F(0))) =>
           isnan(fn_out.max_cac_for_target)
    /\ (/\ fn = "max_cac_for_target_ratio"
        /\ FEq(fn_in.target_ratio, F(0))
        /\ FLe(F(0), fn_in.ltv)) =>
           (fn_out.raised = None /\ isnan(fn_out.value))

\* C15: in compute(), ltv_cac_ratio is LTV / assumed CAC when assumed CAC > 0 and the
\* "undefined" sentinel (not 0, not an error) when assumed CAC is 0, whatever LTV is.
C15_RatioOrUndefined ==
    fn = "compute" =>
        /\ fn_out.raised = None
        /\ FLt(F(0), fn_in.cac_assumed) =>
               fn_out.ltv_cac_ratio = FDiv(fn_out.ltv, fn_in.cac_assumed)
        /\ FEq(fn_in.cac_assumed, F(0)) => isnan(fn_out.ltv_cac_ratio)

\* C15 witness: compute() returned an undefined ratio for assumed CAC 0 and a negative LTV.
C15_Witness ==
    /\ ComputeReturned
    /\ FEq(fn_in.cac_assumed, F(0))
    /\ FLt(fn_out.ltv, F(0))
    /\ isnan(fn_out.ltv_cac_ratio)

\* C16: LTV is buffered gross profit times expected orders with no floor on the
\* gross-profit term (only the orders term is floored at 0), in compute() and in
\* compute_ltv_simple().
C16_LtvNotFloored ==
    /\ ComputeReturned =>
           /\ fn_out.ltv = FMul(fn_out.buffered_gp, fn_out.expected_orders)
           /\ FLe(F(0), fn_out.expected_orders)
    /\ (fn = "compute_ltv_simple" /\ FLe(F(0), fn_in.orders_per_customer)) =>
           /\ fn_out.raised = None
           /\ fn_out.value = FMul(fn_in.gross_profit_per_order, fn_in.orders_per_customer)

\* C17: for non-negative inputs (fee rate within [0,1]) the total variable cost returned
\* by compute() and by compute_unit_economics() is materials + packaging + shipping +
\* payment_fees + labor_cost + overhead_cost.
C17_SixComponents ==
    (UnitEconomicsEntry /\ ~Malformed(fn_in)) =>
        /\ fn_out.raised = None
        /\ ReturnedCost = SixComponentCost(fn_in)

\* C18: a scenario whose variable costs exceed its price is not rejected: both entry
\* points return gross_profit = price - variable costs, negative, with the rest of the
\* result, and compute() reports it by the gross-profit warning.
C18_NegativeGrossProfitReturned ==
    /\ fn = "compute" =>
           /\ fn_out.raised = None
           /\ DOMAIN fn_out = RESULT_KEYS
           /\ fn_out.gross_profit = FSub(fn_in.price, fn_out.variable_costs)
           /\ FLt(fn_in.price, fn_out.variable_costs) =>
                  /\ FLt(fn_out.gross_profit, F(0))
                  /\ WARN_GROSS_PROFIT \in Range(fn_out.warnings)
    /\ (UnitEconomicsCalled /\ ~Malformed(fn_in)) =>
           /\ fn_out.raised = None
           /\ fn_out.gross_profit = FSub(fn_in.price, fn_out.total_variable_costs)
           /\ FLt(fn_in.price, fn_out.total_variable_costs) =>
                  FLt(fn_out.gross_profit, F(0))

\* C18 witness: compute_unit_economics() returned a negative gross profit for a
\* well-formed scenario.
C18_Witness ==
    /\ UnitEconomicsReturned
    /\ ~Malformed(fn_in)
    /\ FLt(fn_in.price, fn_out.total_variable_costs)
    /\ FLt(fn_out.gross_profit, F(0))

\* C19: malformed scenario input is rejected with an error by every compute entry point
\* (compute() and compute_unit_economics()): no result record is returned.
C19_MalformedRejected ==
    (UnitEconomicsEntry /\ Malformed(fn_in)) => fn_out.raised # None

\* C20: in compute(), with rates in [0,1], buffered_gp is gross_profit * (1 - refunds_rate)
\* * (1 - holdback_rate), the refund haircut first and the holdback second; if either
\* rate is 1, buffered_gp is 0 whatever the sign of gross_profit.
C20_BufferedGrossProfit ==
    (/\ fn = "compute"
     /\ FLe(F(0), fn_in.refunds_rate) /\ FLe(fn_in.refunds_rate, F(1))
     /\ FLe(F(0), fn_in.gross_margin_holdback_rate)
     /\ FLe(fn_in.gross_margin_holdback_rate, F(1))) =>
        /\ fn_out.raised = None
        /\ fn_out.expected_gp_after_refunds =
               FMul(fn_out.gross_profit, FSub(F(1), fn_in.refunds_rate))
        /\ fn_out.buffered_gp =
               FMul(fn_out.expected_gp_after_refunds,
                    FSub(F(1), fn_in.gross_margin_holdback_rate))
        /\ (FEq(fn_in.refunds_rate, F(1)) \/ FEq(fn_in.gross_margin_holdback_rate, F(1))) =>
               FEq(fn_out.buffered_gp, F(0))

\* C20 witness: compute() returned buffered_gp 0 for a negative gross profit with the
\* refunds rate at 1 and the holdback rate below it.
C20_Witness ==
    /\ ComputeReturned
    /\ FLt(fn_out.gross_profit, F(0))
    /\ FEq(fn_in.refunds_rate, F(1))
    /\ FLt(fn_in.gross_margin_holdback_rate, F(1))
    /\ FLe(F(0), fn_in.gross_margin_holdback_rate)
    /\ FEq(fn_out.buffered_gp, F(0))

C22_ZeroLtvZeroMaxCac ==
    /\ (/\ fn = "compute"
        /\ FLt(F(0), fn_in.ltv_to_cac_target)
        /\ FEq(fn_out.ltv, F(0))) =>
           /\ fn_out.raised = None
           /\ fn_out.max_cac_for_target = F(0)
    /\ (/\ fn = "max_cac_for_target_ratio"
        /\ FLt(F(0), fn_in.target_ratio)
        /\ FEq(fn_in.ltv, F(0))) =>
           /\ fn_out.raised = None
           /\ fn_out.value = F(0)

\* C22 witness: max_cac_for_target_ratio() returned 0 for an LTV of 0 and a positive
\* target ratio.
C22_Witness ==
    /\ fn = "max_cac_for_target_ratio"
    /\ FEq(fn_in.ltv, F(0))
    /\ FLt(F(0), fn_in.target_ratio)
    /\ fn_out.raised = None
    /\ fn_out.value = F(0)

\* -------------------------------------------------------------------------
\* Properties of repeated runs
\* -------------------------------------------------------------------------
\* the positions of the calls logged so far
Runs == 1 .. Len(calls)

C24_UniversalNotes ==
    /\ (RouteReturned /\ DefinitionsPresent) => result.notes = UNIVERSAL_NOTES
    /\ (RouteReturned /\ ~DefinitionsPresent) =>
           \A i \in 1..Len(result.notes) : result.notes[i] \notin Range(UNIVERSAL_NOTES)
    /\ pc = "start" =>
           \A d \in Range(DECISION_TYPES), p \in Range(PAIN_SIGNALS_ORDER) :
               RoutedDecisionOf(d, p, time_horizon).notes = UNIVERSAL_NOTES

\* C24 witness: a question routed on a pain-signal branch carries the two universal notes.
C24_Witness ==
    /\ RouteReturned
    /\ DefinitionsPresent
    /\ pain_signal = "Growth feels risky"
    /\ Len(result.notes) = 2
    /\ result.notes = UNIVERSAL_NOTES

\* -------------------------------------------------------------------------
\* Properties of the output
\* -------------------------------------------------------------------------
\* s.split("\n")
SplitLines(s) ==
    LET cuts == { 0 } \cup { i \in 1..Len(s) : s[i] = "\n" }
        start(k) == CHOOSE p \in cuts : Cardinality({ q \in cuts : q < p }) = k - 1
        stop(k) == IF k = Cardinality(cuts) THEN Len(s) + 1 ELSE start(k + 1)
    IN  [ k \in 1..Cardinality(cuts) |-> SubSeq(s, start(k) + 1, stop(k) - 1) ]

\* s.startswith(prefix)
StartsWith(s, prefix) == Len(s) >= Len(prefix) /\ SubSeq(s, 1, Len(prefix)) = prefix

\* the str a JSON string body stands for: every backslash escape read back
RECURSIVE JsonUnescape(_)
JsonUnescape(s) ==
    IF s = << >> THEN << >>
    ELSE IF Head(s) = "\\" /\ Len(s) >= 2
         THEN LET c == CHOOSE k \in DOMAIN JSON_ESCAPES : JSON_ESCAPES[k][2] = s[2]
              IN  << c >> \o JsonUnescape(SubSeq(s, 3, Len(s)))
         ELSE << Head(s) >> \o JsonUnescape(Tail(s))

\* the str of one line of an indented JSON list: the indent, the quotes and the comma
\* after the closing quote are taken off
JsonItem(line) ==
    LET t == LStrip(line)
        body == IF t[Len(t)] = "," THEN SubSeq(t, 2, Len(t) - 2) ELSE SubSeq(t, 2, Len(t) - 1)
    IN  JsonUnescape(body)

\* json.loads(text)["directives"] for a text written with indent=2
ParsedJsonDirectives(text) ==
    LET lines == SplitLines(text)
        key == <<" ", " ">> \o json_string(PAYLOAD_KEYS.directives) \o <<":", " ">>
        h == CHOOSE i \in 1..Len(lines) : StartsWith(lines[i], key)
        e == CHOOSE i \in h..Len(lines) :
                 /\ i > h
                 /\ StartsWith(lines[i], <<" ", " ", "]">>)
                 /\ \A j \in (h + 1)..(i - 1) : ~StartsWith(lines[j], <<" ", " ", "]">>)
    IN  IF lines[h] \in { key \o <<"[", "]">>, key \o <<"[", "]", ",">> } THEN << >>
        ELSE [ k \in 1..(e - h - 1) |-> JsonItem(lines[h + k]) ]

\* the directives read back from the text of format_routing_output(): the "- " lines
\* between the first heading and the first empty line
ParsedTextDirectives(text) ==
    LET lines == SplitLines(text)
        e == CHOOSE i \in 1..Len(lines) :
                 lines[i] = << >> /\ \A j \in 1..(i - 1) : lines[j] # << >>
    IN  [ k \in 1..(e - 2) |-> SubSeq(lines[k + 1], 3, Len(lines[k + 1])) ]

\* C25: the directives parsed back from to_json(result), and from
\* format_routing_output(result), are the directive names of the decision in the same
\* order: none is reordered, dropped or duplicated.
C25_DirectivesRoundTrip ==
    /\ fn = "to_json" => ParsedJsonDirectives(fn_out.value) = fn_in.directives
    /\ fn = "format_routing_output" => ParsedTextDirectives(fn_out.value) = fn_in.directives

\* C25 witness: a decision of at least three directives was written by to_json() and read
\* back unchanged.
C25_Witness ==
    /\ fn = "to_json"
    /\ Len(fn_in.directives) >= 3
    /\ fn_in.directives[1] # fn_in.directives[2]
    /\ ParsedJsonDirectives(fn_out.value) = fn_in.directives

\* -------------------------------------------------------------------------
\* Properties of the rejection of a blank question
\* -------------------------------------------------------------------------
\* the calls route() makes, and route() itself
ROUTING_CALLS ==
    CLASSIFY_CALLS \cup { "route", "ask_one_question", "enforce_definitions_gate" }

\* C26: a question that is empty or only whitespace is rejected before the routing runs:
\* main() ends with the validation status 4 without calling route(), the definitions
\* gate or a classifier, and the assistant page stops before it calls the routing engine.
C26_BlankQuestionRejected ==
    /\ (/\ args # NoArgs
        /\ raised = None
        /\ (question = NoStr \/ Strip(question) = << >>)) =>
           /\ Exited(4)
           /\ Range(calls) \cap ROUTING_CALLS = { }
    /\ (/\ pc = "page_stopped"
        /\ de_out.submit_intent
        /\ Strip(user_intent) = << >>) =>
           /\ de_out.stopped = PAGE_STOPS.empty
           /\ "decision_engine" \notin Range(calls)

\* C26 witness: main() was given a question of whitespace only and ended with status 4
\* having called nothing of the routing.
C26_Witness ==
    /\ args # NoArgs
    /\ question # NoStr
    /\ question # << >>
    /\ Strip(question) = << >>
    /\ Exited(4)
    /\ calls = << >>

\* -------------------------------------------------------------------------
\* Properties of the directive loader
\* -------------------------------------------------------------------------
\* the file of that name is in the directives directory
FilePresent(dir, filename) ==
    dir.isdir /\ filename \in DOMAIN dir.entries /\ dir.entries[filename].isfile

\* the file of that name is present and holds nothing or only whitespace
FileEmpty(dir, filename) ==
    FilePresent(dir, filename) /\ Strip(dir.entries[filename].content) = << >>

\* C27: load_directive() fails for a missing file and fails with another, distinguishable
\* error for a present file that is empty or whitespace only; load_all_directives() fails
\* as a whole when a listed .md file is empty; every Directive returned by either has
\* content that is not empty.
C27_EmptyDirectiveIsAnError ==
    /\ fn = "load_directive" =>
           /\ ~FilePresent(fn_in.dir, fn_in.filename) => fn_out.raised = "FileNotFoundError"
           /\ FileEmpty(fn_in.dir, fn_in.filename) =>
                  fn_out.raised \notin { None, "FileNotFoundError" }
           /\ fn_out.raised = None => fn_out.value.content # << >>
    /\ fn = "load_all_directives" =>
           /\ (\E f \in DOMAIN fn_in.dir.entries :
                   EndsWith(f, MD_SUFFIX) /\ FileEmpty(fn_in.dir, f)) =>
                  fn_out.raised # None
           /\ fn_out.raised = None =>
                  \A n \in DOMAIN fn_out.value : fn_out.value[n].content # << >>

\* C27 witness: load_all_directives() failed on a directory whose first listed file is
\* sound and whose second is whitespace only.
C27_Witness ==
    /\ fn = "load_all_directives"
    /\ FilePresent(fn_in.dir, DEFINE_CAC_MODEL_MD)
    /\ ~FileEmpty(fn_in.dir, DEFINE_CAC_MODEL_MD)
    /\ FileEmpty(fn_in.dir, DEFINE_LTV_MODEL_MD)
    /\ fn_in.dir.entries[DEFINE_LTV_MODEL_MD].content # << >>
    /\ fn_out.raised = "ValueError"

\* -------------------------------------------------------------------------
\* Properties of the classifiers
\* -------------------------------------------------------------------------
\* the entry of order at position i has a keyword that is a substring of the lower-cased
\* text
KeywordIn(order, keywords, text, i) ==
    \E k \in 1..Len(keywords[order[i]]) : Contains(Lower(text), keywords[order[i]][k])

\* label is the first entry of order with a keyword in the text, or dflt when no
\* entry has one
FirstMatchOrDefault(order, keywords, text, dflt, label) ==
    IF \E i \in 1..Len(order) : KeywordIn(order, keywords, text, i)
    THEN \E i \in 1..Len(order) :
             /\ label = order[i]
             /\ KeywordIn(order, keywords, text, i)
             /\ \A j \in 1..(i - 1) : ~KeywordIn(order, keywords, text, j)
    ELSE label = dflt

\* C28: classify_pain_signal() and classify_time_horizon() return the label of the first
\* keyword list, in declaration order, that has a keyword occurring as a substring of the
\* lower-cased question, whatever later lists match; with no match they return
\* "Not sure what to do next" and "Short (weeks)".
C28_FirstMatchingLabel ==
    /\ fn = "classify_pain_signal" =>
           FirstMatchOrDefault(PAIN_SIGNALS_ORDER, PAIN_SIGNALS, fn_in.question,
                               "Not sure what to do next", fn_out.value)
    /\ fn = "classify_time_horizon" =>
           FirstMatchOrDefault(KEYWORDS_TIME_HORIZON_ORDER, KEYWORDS_TIME_HORIZON,
                               fn_in.question, "Short (weeks)", fn_out.value)

\* C28 witness: classify_time_horizon() returned the first horizon on one matching
\* keyword although the last horizon has two.
C28_Witness ==
    /\ fn = "classify_time_horizon"
    /\ fn_out.value = "Immediate (days)"
    /\ Hits(KEYWORDS_TIME_HORIZON["Immediate (days)"], Lower(fn_in.question)) = 1
    /\ Hits(KEYWORDS_TIME_HORIZON["Medium (months)"], Lower(fn_in.question)) >= 2

\* -------------------------------------------------------------------------
\* Properties of the directive names and of the exit status
\* -------------------------------------------------------------------------
\* the directive files a decision may name: EXPECTED_DIRECTIVES without the router file
ROUTABLE_DIRECTIVES == Range(EXPECTED_DIRECTIVES) \ { DEFAULT_ROUTER_FILENAME }

\* C29: every directive name of a decision route() returns, blocked or routed, is one of
\* EXPECTED_DIRECTIVES other than decision_router.md, and the decision_type of every
\* returned decision is one of the eight DECISION_TYPES, never unset. The decisions of
\* every pair of decision type and pain signal are looked at once, in the initial states.
C29_KnownDirectivesAndType ==
    /\ RouteReturned =>
           /\ Range(result.directives) \subseteq ROUTABLE_DIRECTIVES
           /\ result.decision_type \in Range(DECISION_TYPES)
    /\ pc = "start" =>
           \A d \in Range(DECISION_TYPES), p \in Range(PAIN_SIGNALS_ORDER) :
               /\ Range(RoutedDecisionOf(d, p, time_horizon).directives)
                      \subseteq ROUTABLE_DIRECTIVES
               /\ Range(BlockedDecision(d, p, time_horizon, << >>).directives)
                      \subseteq ROUTABLE_DIRECTIVES

\* C29 witness: a question no keyword classifies was routed after an answer outside the
\* menu, with a decision type of the list and directives of the expected ones.
C29_Witness ==
    /\ RouteReturned
    /\ "ask_one_question" \in Range(calls)
    /\ raw \notin DOMAIN ASK_MAPPING
    /\ result.decision_type = "Strategic Direction"
    /\ Len(result.directives) >= 2
    /\ Range(result.directives) \subseteq ROUTABLE_DIRECTIVES

\* main() found its directives directory
DirectivesDirFound ==
    IF args.directives_dir THEN dirs # { } ELSE locate_directives_dir(dirs)

\* the first check of main() that fails is the router file
RouterFileMissing ==
    /\ raised = None
    /\ ~NoQuestionGiven
    /\ ~QuestionFileNotFound
    /\ DirectivesDirFound
    /\ ~file_exists(files, DEFAULT_ROUTER_FILENAME)

\* the first check of main() that fails is the definitions gate of route()
DefinitionsGateFails ==
    /\ question # NoStr
    /\ Strip(question) # << >>
    /\ DirectivesDirFound
    /\ file_exists(files, DEFAULT_ROUTER_FILENAME)
    /\ ~DefinitionsPresent

\* C30: main() checks in a fixed order that the question is present (status 4), that the
\* directives directory is present (status 4), that the router file is present (status
\* 3), and only then the definitions gate in route() (status 2): a run that has exited
\* reports the status of the earliest failing check, and route() is not called when the
\* router file is missing.
C30_ChecksInOrder ==
    pc = "exited" =>
        /\ (NoQuestionGiven \/ QuestionFileNotFound) => exit_code = 4
        /\ DirectivesDirNotFound => exit_code = 4
        /\ RouterFileMissing => (exit_code = 3 /\ ~RouteCalled)
        /\ DefinitionsGateFails => exit_code = 2

=============================================================================
